---- MODULE Spec2Model ----
(***************************************************************************)
(* A model of the truck2jbeam conversion core: the Rig aggregate of        *)
(* src/rig.py with its records from src/rig_common.py, and the pipeline    *)
(* of src/truck2jbeam.py (from_file, calculate_masses, to_jbeam).          *)
(*                                                                         *)
(* Python floats are modelled as exact rationals <<numerator, denominator>>*)
(* in lowest terms with a positive denominator; rounding is not modelled.  *)
(* Strings that the code takes apart (mesh filenames) are sequences of     *)
(* one-character strings; identifiers that are only compared are strings.  *)
(* A line of an input file is the sequence of its words and separators.    *)
(* rig_parser.py is not among the sources: PrepareLine and ParseNodeName   *)
(* follow the description of the tokenizer and of Node in spec.md.         *)
(***************************************************************************)
EXTENDS Integers, Sequences, FiniteSets, TLC

VARIABLES
    rig,        \* the Rig object: one field per attribute of Rig.__init__
    pc,         \* position of the caller in the pipeline
    ret,        \* what the last operation returned or raised
    jbeam,      \* the output file: <<>> until written, then its sections
    parse,      \* the input file and the locals of from_file
    mesh_mapping  \* what the DAE processor was handed: pairs <<mesh, group>>

vars == <<rig, pc, ret, jbeam, parse, mesh_mapping>>

----------------------------------------------------------------------------
(* Bounds of the model *)

MaxNodes == 2
MaxBeams == 2
MaxFlexbodies == 2
MaxProps == 1
MaxParts == 3

----------------------------------------------------------------------------
(* Exact arithmetic standing for Python's float arithmetic *)

Abs(a) == IF a < 0 THEN -a ELSE a

RECURSIVE Gcd(_, _)
Gcd(a, b) == IF b = 0 THEN a ELSE Gcd(b, a % b)

Rat(n, d) ==
    LET g == Gcd(Abs(n), Abs(d))
        s == IF d < 0 THEN -1 ELSE 1
    IN  <<(s * n) \div g, (s * d) \div g>>

RInt(i) == <<i, 1>>
RAdd(a, b) == Rat(a[1] * b[2] + b[1] * a[2], a[2] * b[2])
RSub(a, b) == Rat(a[1] * b[2] - b[1] * a[2], a[2] * b[2])
RMul(a, b) == Rat(a[1] * b[1], a[2] * b[2])
RDiv(a, b) == Rat(a[1] * b[2], a[2] * b[1])
RLt(a, b) == a[1] * b[2] < b[1] * a[2]
RLe(a, b) == a[1] * b[2] <= b[1] * a[2]
RAbs(a) == <<Abs(a[1]), a[2]>>

RECURSIVE RSum(_, _)
RSum(s, i) == IF i = 0 THEN RInt(0) ELSE RAdd(RSum(s, i - 1), s[i])

----------------------------------------------------------------------------
(* Records of rig_common.py *)

\* Node.override_mass is False or a number: <<>> stands for False, <<v>> for v.
NoOverride == <<>>

Node(name, xpos, ypos, zpos) ==
    [name |-> name, x |-> xpos, y |-> ypos, z |-> zpos,
     fixed |-> FALSE, mass |-> RInt(10), load_bearer |-> FALSE,
     override_mass |-> NoOverride, coupler |-> FALSE, collision |-> TRUE,
     selfCollision |-> FALSE, frictionCoef |-> RInt(1), group |-> <<>>]

Beam(nid1, nid2, spring, damp, strength, deform) ==
    [id1 |-> nid1, id2 |-> nid2, beamSpring |-> spring, beamDamp |-> damp,
     beamStrength |-> strength, beamDeform |-> deform,
     beamShortBound |-> RInt(1), beamLongBound |-> RInt(1),
     beamPrecompression |-> RInt(1), beamDampRebound |-> FALSE,
     beamLimitSpring |-> spring * 2, beamLimitDamp |-> Rat(damp, 2),
     type |-> "NORMAL", breakGroup |-> ""]

----------------------------------------------------------------------------
(* The Rig object *)

\* refnodes is <<>> for None and <<r>> for the record r; torquecurve and
\* engine say whether the rig has one.
NewRig ==
    [name |-> <<"Untitled", " ", "Rig", " ", "Class">>, nodes |-> <<>>, beams |-> <<>>,
     flexbodies |-> <<>>, props |-> <<>>,
     triangles |-> <<>>, quads |-> <<>>, legacy_triangles |-> <<>>,
     hydros |-> <<>>, internal_cameras |-> <<>>, rails |-> <<>>,
     slidenodes |-> <<>>, wheels |-> <<>>, brakes |-> <<>>, rollon |-> FALSE,
     axles |-> <<>>, refnodes |-> <<>>,
     torquecurve |-> FALSE, engine |-> FALSE,
     minimass |-> 50, dry_weight |-> 10000, load_weight |-> 10000,
     parse_warnings |-> <<>>, parse_errors |-> <<>>,
     no_transform_properties |-> FALSE]

\* A recorded message: its text, the identifiers formatted into it, and the
\* line number given (0 when add_warning/add_error got none).
Msg(text, ids, line_number) == [msg |-> text, args |-> ids, line |-> line_number]

add_warning(r, text, ids, line_number) ==
    [r EXCEPT !.parse_warnings = Append(@, Msg(text, ids, line_number))]

add_error(r, text, ids, line_number) ==
    [r EXCEPT !.parse_errors = Append(@, Msg(text, ids, line_number))]

----------------------------------------------------------------------------
(* Rig.calculate_masses *)

vector_distance(x1, y1, z1, x2, y2, z2) ==
    LET nx == x2 - x1
        ny == y2 - y1
        nz == z2 - z1
    IN  nx * nx + ny * ny + nz * nz

\* next((x for x in self.nodes if x.name == id), None): the index of the first
\* node of that name, 0 for None.
RECURSIVE FirstNodeFrom(_, _, _)
FirstNodeFrom(ns, id, i) ==
    IF i > Len(ns) THEN 0
    ELSE IF ns[i].name = id THEN i
    ELSE FirstNodeFrom(ns, id, i + 1)

FindNode(ns, id) == FirstNodeFrom(ns, id, 1)

CountLoadNodes(ns) == Cardinality({i \in DOMAIN ns : ns[i].load_bearer})

\* Python: n.override_mass == False, which also holds of the number 0.
OverrideIsFalse(o) == o = NoOverride \/ o[1] = 0

\* An initialisation that leaves the mass of a node that bears no load.
InitialMass_Kept(r, n, numloadnodes) ==
    IF ~n.load_bearer THEN n.mass
    ELSE IF OverrideIsFalse(n.override_mass)
         THEN IF numloadnodes > 0 THEN Rat(r.load_weight, numloadnodes)
              ELSE RInt(r.minimass)
         ELSE RInt(n.override_mass[1])

\* The mass a node starts from, rig.py lines 274-283.
InitialMass(r, n, numloadnodes) ==
    IF ~n.load_bearer THEN RInt(0)
    ELSE IF OverrideIsFalse(n.override_mass)
         THEN IF numloadnodes > 0 THEN Rat(r.load_weight, numloadnodes)
              ELSE RInt(r.minimass)
         ELSE RInt(n.override_mass[1])

RECURSIVE InitializeMasses(_, _, _)
InitializeMasses(r, numloadnodes, i) ==
    IF i = 0 THEN r
    ELSE LET p == InitializeMasses(r, numloadnodes, i - 1)
             n == p.nodes[i]
             q == [p EXCEPT !.nodes[i].mass = InitialMass(p, n, numloadnodes)]
         IN  IF n.load_bearer /\ OverrideIsFalse(n.override_mass) /\ numloadnodes <= 0
             THEN add_warning(q, "No load-bearing nodes found, using minimum mass", <<>>, 0)
             ELSE q

\* Squared length of beam b, both of whose endpoints resolve.
BeamLength(ns, b) ==
    LET node1 == ns[FindNode(ns, b.id1)]
        node2 == ns[FindNode(ns, b.id2)]
    IN  vector_distance(node1.x, node1.y, node1.z, node2.x, node2.y, node2.z)

BeamCounts(ns, b) ==
    b.type # "VIRTUAL" /\ FindNode(ns, b.id1) # 0 /\ FindNode(ns, b.id2) # 0

\* avg_lin_dens over beams 1..k, rig.py lines 286-297.
RECURSIVE LinearDensity(_, _)
LinearDensity(r, k) ==
    IF k = 0 THEN 0
    ELSE LinearDensity(r, k - 1)
         + (IF BeamCounts(r.nodes, r.beams[k]) THEN BeamLength(r.nodes, r.beams[k]) ELSE 0)

\* The warnings of the density loop over beams 1..k, rig.py lines 298-299.
RECURSIVE WarnMissingNodes(_, _)
WarnMissingNodes(r, k) ==
    IF k = 0 THEN r
    ELSE LET p == WarnMissingNodes(r, k - 1)
             b == p.beams[k]
         IN  IF b.type # "VIRTUAL" /\ ~BeamCounts(p.nodes, b)
             THEN add_warning(p, "Beam references missing nodes", <<b.id1, b.id2>>, 0)
             ELSE p

\* A share that hands the whole of a beam's mass to each of its ends.
HalfMass_Whole(r, b, avg_lin_dens) ==
    RDiv(RInt(BeamLength(r.nodes, b) * r.dry_weight), RInt(avg_lin_dens))

\* rig.py line 315.
HalfMass(r, b, avg_lin_dens) ==
    RDiv(RDiv(RInt(BeamLength(r.nodes, b) * r.dry_weight), RInt(avg_lin_dens)), RInt(2))

\* Dry weight handed out along beams 1..k, rig.py lines 308-318.
RECURSIVE DistributeDryWeight(_, _, _)
DistributeDryWeight(r, avg_lin_dens, k) ==
    IF k = 0 THEN r
    ELSE LET p == DistributeDryWeight(r, avg_lin_dens, k - 1)
             b == p.beams[k]
         IN  IF BeamCounts(p.nodes, b)
             THEN LET half_mass == HalfMass(p, b, avg_lin_dens)
                      i1 == FindNode(p.nodes, b.id1)
                      i2 == FindNode(p.nodes, b.id2)
                      q == [p EXCEPT !.nodes[i1].mass = RAdd(@, half_mass)]
                  IN  [q EXCEPT !.nodes[i2].mass = RAdd(@, half_mass)]
             ELSE p

\* Mutant: the minimum-mass loop left out.
EnsureMinimumMass_Skipped(r) == r

\* rig.py lines 321-325.
EnsureMinimumMass(r) ==
    [r EXCEPT !.nodes = [i \in DOMAIN r.nodes |->
        IF RLt(r.nodes[i].mass, RInt(r.minimass))
        THEN [r.nodes[i] EXCEPT !.mass = RInt(r.minimass)]
        ELSE r.nodes[i]]]

TotalMass(r) == RSum([i \in DOMAIN r.nodes |-> r.nodes[i].mass], Len(r.nodes))

ExpectedMass(r) == r.dry_weight + r.load_weight

\* mass_difference > expected_mass * 0.1, rig.py lines 331-335.
MassDiffersSignificantly(r) ==
    RLt(Rat(ExpectedMass(r), 10), RAbs(RSub(TotalMass(r), RInt(ExpectedMass(r)))))

\* Mutant: the comparison made, the warning never recorded.
CheckTotalMass_Silent(r) == r

CheckTotalMass(r) ==
    IF MassDiffersSignificantly(r)
    THEN add_warning(r, "Total calculated mass differs significantly from expected", <<>>, 0)
    ELSE r

\* Mutant: a zero density ends the call without recording the error.
calculate_masses_NoError(r) ==
    IF r.nodes = <<>>
    THEN add_error(r, "Cannot calculate masses: no nodes found", <<>>, 0)
    ELSE LET r1 == InitializeMasses(r, CountLoadNodes(r.nodes), Len(r.nodes))
             avg_lin_dens == LinearDensity(r1, Len(r1.beams))
             r2 == WarnMissingNodes(r1, Len(r1.beams))
         IN  IF avg_lin_dens = 0
             THEN r2
             ELSE CheckTotalMass(EnsureMinimumMass(
                      DistributeDryWeight(r2, avg_lin_dens, Len(r2.beams))))

calculate_masses(r) ==
    IF r.nodes = <<>>
    THEN add_error(r, "Cannot calculate masses: no nodes found", <<>>, 0)
    ELSE LET r1 == InitializeMasses(r, CountLoadNodes(r.nodes), Len(r.nodes))
             avg_lin_dens == LinearDensity(r1, Len(r1.beams))
             r2 == WarnMissingNodes(r1, Len(r1.beams))
         IN  IF avg_lin_dens = 0
             THEN add_error(r2, "Cannot calculate masses: no valid beams found", <<>>, 0)
             ELSE CheckTotalMass(EnsureMinimumMass(
                      DistributeDryWeight(r2, avg_lin_dens, Len(r2.beams))))

----------------------------------------------------------------------------
(* Strings the code takes apart: sequences of one-character strings *)

UpperChars == <<"A","B","C","D","E","F","G","H","I","J","K","L","M",
                "N","O","P","Q","R","S","T","U","V","W","X","Y","Z">>
LowerChars == <<"a","b","c","d","e","f","g","h","i","j","k","l","m",
                "n","o","p","q","r","s","t","u","v","w","x","y","z">>
DigitChars == <<"0","1","2","3","4","5","6","7","8","9">>

InSeq(x, s) == \E i \in DOMAIN s : s[i] = x

\* str.lower() on one character.
LowerMap == [c \in {UpperChars[i] : i \in DOMAIN UpperChars} |->
                LowerChars[CHOOSE i \in DOMAIN UpperChars : UpperChars[i] = c]]

LowerChar(c) == IF c \in DOMAIN LowerMap THEN LowerMap[c] ELSE c

lower(s) == [i \in DOMAIN s |-> LowerChar(s[i])]

endswith(s, suffix) ==
    /\ Len(s) >= Len(suffix)
    /\ SubSeq(s, Len(s) - Len(suffix) + 1, Len(s)) = suffix

\* str.rfind of one character: the last position, 0 when absent.
RECURSIVE rfind(_, _, _)
rfind(s, c, i) == IF i = 0 THEN 0 ELSE IF s[i] = c THEN i ELSE rfind(s, c, i - 1)

\* os.path.splitext: the extension starts at the last dot of the last path
\* component, unless only dots precede it in that component.
splitext(p) ==
    LET sepIndex == rfind(p, "/", Len(p))
        dotIndex == rfind(p, ".", Len(p))
    IN  IF dotIndex > sepIndex
           /\ \E k \in (sepIndex + 1)..(dotIndex - 1) : p[k] # "."
        THEN <<SubSeq(p, 1, dotIndex - 1), SubSeq(p, dotIndex, Len(p))>>
        ELSE <<p, <<>>>>

\* The decimal digits of n >= 0.
RECURSIVE Digits(_)
Digits(n) == IF n < 10 THEN <<DigitChars[n + 1]>>
             ELSE Digits(n \div 10) \o <<DigitChars[(n % 10) + 1]>>

\* Python's format spec 03d for n >= 0.
ZeroPad3(n) ==
    LET d == Digits(n)
    IN  IF Len(d) >= 3 THEN d ELSE [i \in 1..(3 - Len(d)) |-> "0"] \o d

Dot_mesh == <<".", "m", "e", "s", "h">>
Dot_dae == <<".", "d", "a", "e">>

----------------------------------------------------------------------------
(* Flexbody and Prop of rig_common.py *)

Flexbody(refnode, xnode, ynode, offsetX, offsetY, offsetZ, rotX, rotY, rotZ, mesh) ==
    [kind |-> "flexbody", mesh |-> mesh,
     refnode |-> refnode, xnode |-> xnode, ynode |-> ynode,
     offsetX |-> offsetX, offsetY |-> offsetY, offsetZ |-> offsetZ,
     rotX |-> rotX, rotY |-> rotY, rotZ |-> rotZ,
     forset_nodes |-> <<>>, group_name |-> <<>>,
     scale |-> <<RInt(1), RInt(1), RInt(1)>>,
     animation_factor |-> RInt(0), animation_mode |-> "rotation"]

Prop(refnode, xnode, ynode, offsetX, offsetY, offsetZ, rotX, rotY, rotZ, mesh) ==
    [kind |-> "prop", mesh |-> mesh,
     refnode |-> refnode, xnode |-> xnode, ynode |-> ynode,
     offsetX |-> offsetX, offsetY |-> offsetY, offsetZ |-> offsetZ,
     rotX |-> rotX, rotY |-> rotY, rotZ |-> rotZ,
     forset_nodes |-> <<>>, group_name |-> <<>>,
     scale |-> <<RInt(1), RInt(1), RInt(1)>>,
     animation_factor |-> RInt(0), animation_mode |-> "rotation",
     animation_axis |-> <<0, 0, 1>>]

WordChars ==
    {UpperChars[i] : i \in DOMAIN UpperChars} \cup {LowerChars[i] : i \in DOMAIN LowerChars}
    \cup {DigitChars[i] : i \in DOMAIN DigitChars} \cup {"_"}

IsWordChar(c) == c \in WordChars

\* re.sub(r'[^\w_]', '_', name) followed by re.sub(r'_+', '_', name).
RECURSIVE SquashNonWord(_, _)
SquashNonWord(s, i) ==
    IF i = 0 THEN <<>>
    ELSE LET head == SquashNonWord(s, i - 1)
             c == IF IsWordChar(s[i]) THEN s[i] ELSE "_"
         IN  IF c = "_" /\ head # <<>> /\ head[Len(head)] = "_" THEN head
             ELSE Append(head, c)

\* str.strip('_').
RECURSIVE lstrip_(_)
lstrip_(s) == IF s # <<>> /\ s[1] = "_" THEN lstrip_(Tail(s)) ELSE s
RECURSIVE rstrip_(_)
rstrip_(s) == IF s # <<>> /\ s[Len(s)] = "_" THEN rstrip_(SubSeq(s, 1, Len(s) - 1)) ELSE s
strip_(s) == rstrip_(lstrip_(s))

GroupSuffix(e) ==
    IF e.kind = "flexbody"
    THEN <<"_", "f", "l", "e", "x", "b", "o", "d", "y">>
    ELSE <<"_", "p", "r", "o", "p">>

\* Flexbody.get_group_name and Prop.get_group_name.
get_group_name(e) ==
    IF e.group_name # <<>> THEN e.group_name
    ELSE LET name == lower(e.mesh)
             stem == IF endswith(name, Dot_mesh) THEN SubSeq(name, 1, Len(name) - 5)
                     ELSE IF endswith(name, Dot_dae) THEN SubSeq(name, 1, Len(name) - 4)
                     ELSE name
         IN  strip_(SquashNonWord(stem, Len(stem))) \o GroupSuffix(e)

\* Flexbody.get_nodes and Prop.get_nodes, as the set of names they list.
get_nodes(e) ==
    {e.refnode, e.xnode, e.ynode} \cup {e.forset_nodes[i] : i \in DOMAIN e.forset_nodes}

----------------------------------------------------------------------------
(* Rig._resolve_duplicate_mesh_names and Rig._generate_unique_mesh_name *)

\* A variant that numbers the occurrences from zero.
_generate_unique_mesh_name_FromZero(original_mesh, counter) ==
    LET parts == splitext(original_mesh)
    IN  parts[1] \o <<"_">> \o ZeroPad3(counter) \o parts[2]

_generate_unique_mesh_name(original_mesh, counter) ==
    LET parts == splitext(original_mesh)
        suffix == IF counter = 0 THEN <<"_", "0", "0", "1">>
                  ELSE IF counter = 1 THEN <<"_", "0", "0", "2">>
                  ELSE IF counter = 2 THEN <<"_", "0", "0", "3">>
                  ELSE <<"_">> \o ZeroPad3(counter + 1)
    IN  parts[1] \o suffix \o parts[2]

\* First pass: how often each lower-cased mesh name occurs among the elements.
MeshUsage(all) ==
    [n \in {lower(all[i].mesh) : i \in DOMAIN all} |->
        Cardinality({i \in DOMAIN all : lower(all[i].mesh) = n})]

\* Second pass, element k: p holds the elements as renamed so far and the
\* mesh_counters dictionary.
RenameElement(p, mesh_usage, k) ==
    LET original_mesh == p.elements[k].mesh
        mesh_name_lower == lower(original_mesh)
    IN  IF mesh_usage[mesh_name_lower] > 1
        THEN LET counter == IF mesh_name_lower \in DOMAIN p.mesh_counters
                            THEN p.mesh_counters[mesh_name_lower] ELSE 0
                 new_mesh_name == _generate_unique_mesh_name(original_mesh, counter)
             IN  [elements |-> [p.elements EXCEPT ![k].mesh = new_mesh_name],
                  mesh_counters |->
                      [n \in DOMAIN p.mesh_counters \cup {mesh_name_lower} |->
                          IF n = mesh_name_lower THEN counter + 1
                          ELSE p.mesh_counters[n]]]
        ELSE p

RECURSIVE RenameDuplicates(_, _, _)
RenameDuplicates(all, mesh_usage, k) ==
    IF k = 0 THEN [elements |-> all, mesh_counters |-> <<>>]
    ELSE RenameElement(RenameDuplicates(all, mesh_usage, k - 1), mesh_usage, k)

_resolve_duplicate_mesh_names(r) ==
    LET all_visual_elements == r.flexbodies \o r.props
        renamed == RenameDuplicates(all_visual_elements,
                                    MeshUsage(all_visual_elements),
                                    Len(all_visual_elements)).elements
    IN  [r EXCEPT !.flexbodies = SubSeq(renamed, 1, Len(r.flexbodies)),
                  !.props = SubSeq(renamed, Len(r.flexbodies) + 1, Len(renamed))]

----------------------------------------------------------------------------
(* Rig._assign_flexbody_groups and Rig._find_flexbody_nodes *)

\* node_map = {node.name: node for node in self.nodes}: the index of the last
\* node of that name, 0 when the name is no key.
RECURSIVE LastNodeFrom(_, _, _)
LastNodeFrom(ns, id, i) ==
    IF i = 0 THEN 0
    ELSE IF ns[i].name = id THEN i
    ELSE LastNodeFrom(ns, id, i - 1)

node_map(ns, id) == LastNodeFrom(ns, id, Len(ns))

\* Squared distance of node n to the point (cx, cy, cz), as a rational.
DistanceSq(n, cx, cy, cz) ==
    LET dx == RSub(RInt(n.x), cx)
        dy == RSub(RInt(n.y), cy)
        dz == RSub(RInt(n.z), cz)
    IN  RAdd(RAdd(RMul(dx, dx), RMul(dy, dy)), RMul(dz, dz))

RMax(a, b) == IF RLt(a, b) THEN b ELSE a

\* A search that finds every node of the rig.
_find_flexbody_nodes_Everywhere(r, flexbody) ==
    [k \in DOMAIN r.nodes |-> r.nodes[k].name]

\* The names _find_flexbody_nodes returns, as a sequence in node order.
\* dist <= max_dist * 2.0 is decided on the squares: dist^2 <= 4 * max_dist^2.
_find_flexbody_nodes(r, flexbody) ==
    LET ns == r.nodes
        ref_node == node_map(ns, flexbody.refnode)
        x_node == node_map(ns, flexbody.xnode)
        y_node == node_map(ns, flexbody.ynode)
    IN  IF ref_node = 0 \/ x_node = 0 \/ y_node = 0 THEN <<>>
        ELSE LET center_x == Rat(ns[ref_node].x + ns[x_node].x + ns[y_node].x, 3)
                 center_y == Rat(ns[ref_node].y + ns[x_node].y + ns[y_node].y, 3)
                 center_z == Rat(ns[ref_node].z + ns[x_node].z + ns[y_node].z, 3)
                 d(i) == DistanceSq(ns[i], center_x, center_y, center_z)
                 max_dist_sq == RMax(RMax(RMax(RInt(0), d(ref_node)), d(x_node)), d(y_node))
                 search_radius_sq == RMul(RInt(4), max_dist_sq)
                 candidate_nodes == SelectSeq([i \in DOMAIN ns |-> i],
                                        LAMBDA i : RLe(d(i), search_radius_sq))
                 flexbody_nodes == SelectSeq(candidate_nodes,
                                        LAMBDA i : Len(ns[node_map(ns, ns[i].name)].group) < 2)
                 chosen == IF Len(flexbody_nodes) < 10 THEN candidate_nodes ELSE flexbody_nodes
             IN  [k \in DOMAIN chosen |-> ns[chosen[k]].name]

SeqToSet(s) == {s[i] : i \in DOMAIN s}

\* for node_name in names: the node the name maps to gains group_name once.
AddGroup(ns, names, group_name) ==
    [i \in DOMAIN ns |->
        IF ns[i].name \in names /\ node_map(ns, ns[i].name) = i
           /\ ~InSeq(group_name, ns[i].group)
        THEN [ns[i] EXCEPT !.group = Append(@, group_name)]
        ELSE ns[i]]

\* A variant that searches for nearby nodes even when a forset is given.
FlexbodyNodes_AlwaysSearch(r, flexbody) ==
    LET ref_nodes == {n \in {flexbody.refnode, flexbody.xnode, flexbody.ynode} :
                          node_map(r.nodes, n) # 0}
    IN  ref_nodes \cup SeqToSet(flexbody.forset_nodes)
        \cup SeqToSet(_find_flexbody_nodes(r, flexbody))

\* The names one flexbody hands its group to, rig.py lines 615-631.
FlexbodyNodes(r, flexbody) ==
    LET ref_nodes == {n \in {flexbody.refnode, flexbody.xnode, flexbody.ynode} :
                          node_map(r.nodes, n) # 0}
    IN  ref_nodes \cup SeqToSet(flexbody.forset_nodes)
        \cup (IF flexbody.forset_nodes = <<>>
              THEN SeqToSet(_find_flexbody_nodes(r, flexbody)) ELSE {})

AssignFlexbody(p, flexbody) ==
    [p EXCEPT !.nodes = AddGroup(@, FlexbodyNodes(p, flexbody), get_group_name(flexbody))]

RECURSIVE AssignFlexbodies(_, _)
AssignFlexbodies(r, k) ==
    IF k = 0 THEN r
    ELSE AssignFlexbody(AssignFlexbodies(r, k - 1), r.flexbodies[k])

AssignProp(p, prop) ==
    [p EXCEPT !.nodes = AddGroup(@, {prop.refnode, prop.xnode, prop.ynode},
                                 get_group_name(prop))]

RECURSIVE AssignProps(_, _)
AssignProps(r, k) ==
    IF k = 0 THEN r
    ELSE AssignProp(AssignProps(r, k - 1), r.props[k])

_assign_flexbody_groups(r) ==
    LET r1 == _resolve_duplicate_mesh_names(r)
        r2 == AssignFlexbodies(r1, Len(r1.flexbodies))
    IN  AssignProps(r2, Len(r2.props))

----------------------------------------------------------------------------
(* Triangle and Quad of rig_common.py *)

Triangle(node1, node2, node3, surface_type) ==
    [node1 |-> node1, node2 |-> node2, node3 |-> node3,
     surface_type |-> surface_type, material |-> "default",
     drag_coefficient |-> RInt(0), lift_coefficient |-> RInt(0), options |-> <<>>]

Quad(node1, node2, node3, node4, surface_type) ==
    [node1 |-> node1, node2 |-> node2, node3 |-> node3, node4 |-> node4,
     surface_type |-> surface_type, material |-> "default",
     drag_coefficient |-> RInt(0), lift_coefficient |-> RInt(0), options |-> <<>>]

\* A test that looks at the surface type alone.
is_collision_ByTypeAlone(t) == t.surface_type \in {"collision", "both"}

\* Triangle.is_collision and Triangle.is_visual.
is_collision(t) == t.surface_type \in {"collision", "both"} \/ InSeq("c", t.options)
is_visual(t) == t.surface_type \in {"visual", "both"} \/ InSeq("v", t.options)

\* list.copy(): a new list object with the elements of the list at ref.
\* lists holds the list objects in the order they were made; the place of
\* the new one is Len(lists) + 1.
copy(lists, ref) == Append(lists, lists[ref])

\* A split of the quad into (1,2,3) and (2,3,4).
QuadTriangles_Strip(q, options1, options2) ==
    LET tri(a, b, c, options) ==
            [Triangle(a, b, c, q.surface_type) EXCEPT
                !.material = q.material, !.drag_coefficient = q.drag_coefficient,
                !.lift_coefficient = q.lift_coefficient, !.options = options]
    IN  <<tri(q.node1, q.node2, q.node3, options1),
          tri(q.node2, q.node3, q.node4, options2)>>

\* rig_common.py lines 368-380: tri1 of (1,2,3) and tri2 of (1,3,4), each
\* with the surface type, the material and the coefficients of the quad;
\* options1 and options2 are what self.options.copy() gave for each.
QuadTriangles(q, options1, options2) ==
    LET tri(a, b, c, options) ==
            [Triangle(a, b, c, q.surface_type) EXCEPT
                !.material = q.material, !.drag_coefficient = q.drag_coefficient,
                !.lift_coefficient = q.lift_coefficient, !.options = options]
    IN  <<tri(q.node1, q.node2, q.node3, options1),
          tri(q.node1, q.node3, q.node4, options2)>>

\* Quad.to_triangles where the options are kept as their elements, as the
\* serialiser reads them: a copy has the elements of the list copied.
to_triangles(q) == QuadTriangles(q, q.options, q.options)

----------------------------------------------------------------------------
(* Rig.validate, Rig._validate_surfaces, Rig._validate_visual_elements *)

NodeNameSet(r) == {r.nodes[i].name : i \in DOMAIN r.nodes}

\* One warning for every name of the sequence that is no node name, in order.
RECURSIVE WarnMissing(_, _, _, _)
WarnMissing(r, text, names, k) ==
    IF k = 0 THEN r
    ELSE LET p == WarnMissing(r, text, names, k - 1)
         IN  IF names[k] \notin NodeNameSet(r)
             THEN add_warning(p, text, <<names[k]>>, 0)
             ELSE p

\* A variant that warns once for a beam, whichever of its endpoints dangle.
RECURSIVE CheckOrphanedBeams_OncePerBeam(_, _)
CheckOrphanedBeams_OncePerBeam(r, k) ==
    IF k = 0 THEN r
    ELSE LET p == CheckOrphanedBeams_OncePerBeam(r, k - 1)
         IN  IF r.beams[k].id1 \notin NodeNameSet(r)
             THEN add_warning(p, "Beam references non-existent node", <<r.beams[k].id1>>, 0)
             ELSE IF r.beams[k].id2 \notin NodeNameSet(r)
             THEN add_warning(p, "Beam references non-existent node", <<r.beams[k].id2>>, 0)
             ELSE p

\* rig.py lines 104-108.
RECURSIVE CheckOrphanedBeams(_, _)
CheckOrphanedBeams(r, k) ==
    IF k = 0 THEN r
    ELSE WarnMissing(CheckOrphanedBeams(r, k - 1),
                     "Beam references non-existent node",
                     <<r.beams[k].id1, r.beams[k].id2>>, 2)

\* round(node.x, 3) of a coordinate kept as an integer is the coordinate.
PosKey(n) == <<n.x, n.y, n.z>>

\* rig.py lines 111-117: a node warns when an earlier node holds its position
\* key; the holder is the first node of that key.
RECURSIVE CheckDuplicateNodes(_, _)
CheckDuplicateNodes(r, i) ==
    IF i = 0 THEN r
    ELSE LET p == CheckDuplicateNodes(r, i - 1)
             earlier == {j \in 1..(i - 1) : PosKey(r.nodes[j]) = PosKey(r.nodes[i])}
         IN  IF earlier # {}
             THEN LET first == CHOOSE j \in earlier : \A j2 \in earlier : j <= j2
                  IN  add_warning(p, "Nodes have identical positions",
                                  <<r.nodes[i].name, r.nodes[first].name>>, 0)
             ELSE p

\* A variant that replaces a weight it warns about by the default weight.
CheckWeightsAndEngine_Repairing(r) ==
    LET r1 == IF r.dry_weight <= 0
              THEN [add_warning(r, "Dry weight should be positive", <<>>, 0)
                       EXCEPT !.dry_weight = 10000]
              ELSE r
        r2 == IF r1.load_weight <= 0
              THEN [add_warning(r1, "Load weight should be positive", <<>>, 0)
                       EXCEPT !.load_weight = 10000]
              ELSE r1
    IN  IF r2.engine /\ ~r2.torquecurve
        THEN add_warning(r2, "Engine defined but no torque curve found", <<>>, 0)
        ELSE r2

\* rig.py lines 120-128.
CheckWeightsAndEngine(r) ==
    LET r1 == IF r.dry_weight <= 0
              THEN add_warning(r, "Dry weight should be positive", <<>>, 0) ELSE r
        r2 == IF r1.load_weight <= 0
              THEN add_warning(r1, "Load weight should be positive", <<>>, 0) ELSE r1
    IN  IF r2.engine /\ ~r2.torquecurve
        THEN add_warning(r2, "Engine defined but no torque curve found", <<>>, 0)
        ELSE r2

RECURSIVE ValidateTriangles(_, _)
ValidateTriangles(r, k) ==
    IF k = 0 THEN r
    ELSE LET t == r.triangles[k]
         IN  WarnMissing(ValidateTriangles(r, k - 1),
                         "Triangle references non-existent node",
                         <<t.node1, t.node2, t.node3>>, 3)

RECURSIVE ValidateQuads(_, _)
ValidateQuads(r, k) ==
    IF k = 0 THEN r
    ELSE LET q == r.quads[k]
         IN  WarnMissing(ValidateQuads(r, k - 1),
                         "Quad references non-existent node",
                         <<q.node1, q.node2, q.node3, q.node4>>, 4)

RECURSIVE ValidateLegacyTriangles(_, _)
ValidateLegacyTriangles(r, k) ==
    IF k = 0 THEN r
    ELSE WarnMissing(ValidateLegacyTriangles(r, k - 1),
                     "Legacy submesh triangle references non-existent node",
                     r.legacy_triangles[k], Len(r.legacy_triangles[k]))

_validate_surfaces(r) ==
    LET r1 == ValidateTriangles(r, Len(r.triangles))
        r2 == ValidateQuads(r1, Len(r1.quads))
    IN  ValidateLegacyTriangles(r2, Len(r2.legacy_triangles))

HasMeshExtension(mesh) == endswith(mesh, Dot_mesh) \/ endswith(mesh, Dot_dae)

\* rig.py lines 183-187 and 206-210.
RECURSIVE CheckScale(_, _, _, _)
CheckScale(r, what, scale, j) ==
    IF j = 0 THEN r
    ELSE LET p == CheckScale(r, what, scale, j - 1)
         IN  IF RLe(scale[j], RInt(0))
             THEN add_warning(p, "invalid scale value", <<what>>, 0)
             ELSE IF RLt(RInt(10), scale[j])
             THEN add_warning(p, "very large scale value", <<what>>, 0)
             ELSE p

\* The checks of one flexbody; order is the order in which the list built by
\* get_nodes (list(set(...)), an order Python does not fix) yields its names.
ValidateFlexbody(r, flexbody, order) ==
    LET r1 == WarnMissing(r, "Flexbody references non-existent node", order, Len(order))
        r2 == IF ~HasMeshExtension(flexbody.mesh)
              THEN add_warning(r1, "Flexbody has unusual mesh format", <<>>, 0) ELSE r1
    IN  CheckScale(r2, "Flexbody", flexbody.scale, Len(flexbody.scale))

\* The checks of one prop, rig.py lines 195-215.
ValidateProp(r, prop) ==
    LET r1 == WarnMissing(r, "Prop references non-existent node",
                          <<prop.refnode, prop.xnode, prop.ynode>>, 3)
        r2 == IF ~HasMeshExtension(prop.mesh)
              THEN add_warning(r1, "Prop has unusual mesh format", <<>>, 0) ELSE r1
        r3 == CheckScale(r2, "Prop", prop.scale, Len(prop.scale))
    IN  IF prop.animation_factor # RInt(0)
           /\ prop.animation_mode \notin {"rotation", "translation", "none"}
        THEN add_warning(r3, "Prop has invalid animation mode", <<>>, 0)
        ELSE r3

RECURSIVE ValidateProps(_, _)
ValidateProps(r, k) ==
    IF k = 0 THEN r ELSE ValidateProp(ValidateProps(r, k - 1), r.props[k])

\* The sequences that list every element of the set S once.
RECURSIVE Orders(_)
Orders(S) ==
    IF S = {} THEN {<<>>}
    ELSE UNION {{<<x>> \o o : o \in Orders(S \ {x})} : x \in S}

\* The rigs the flexbody loop can leave after flexbodies 1..k.
RECURSIVE ValidateFlexbodies(_, _)
ValidateFlexbodies(r, k) ==
    IF k = 0 THEN {r}
    ELSE UNION {{ValidateFlexbody(p, r.flexbodies[k], o) :
                     o \in Orders(get_nodes(r.flexbodies[k]))} :
                p \in ValidateFlexbodies(r, k - 1)}

_validate_visual_elements(r) ==
    {ValidateProps(p, Len(p.props)) : p \in ValidateFlexbodies(r, Len(r.flexbodies))}

\* rig.py lines 91-100: the errors, and the value validate returns.
CheckComponents(r) ==
    LET r1 == IF r.nodes = <<>>
              THEN add_error(r, "No nodes found - vehicle needs nodes to function", <<>>, 0)
              ELSE r
    IN  IF r1.beams = <<>>
        THEN add_error(r1, "No beams found - vehicle needs beams for structure", <<>>, 0)
        ELSE r1

\* A variant for which a beam with a dangling endpoint is an error as well.
is_valid_NoOrphans(r) ==
    /\ ~(r.nodes = <<>>) /\ ~(r.beams = <<>>)
    /\ \A k \in DOMAIN r.beams :
          r.beams[k].id1 \in NodeNameSet(r) /\ r.beams[k].id2 \in NodeNameSet(r)

is_valid(r) == ~(r.nodes = <<>>) /\ ~(r.beams = <<>>)

\* The rigs validate can leave: one for every order in which the flexbodies'
\* node sets are listed.
validate(r) ==
    LET r1 == CheckComponents(r)
        r2 == CheckOrphanedBeams(r1, Len(r1.beams))
        r3 == CheckDuplicateNodes(r2, Len(r2.nodes))
        r4 == CheckWeightsAndEngine(r3)
    IN  _validate_visual_elements(_validate_surfaces(r4))

----------------------------------------------------------------------------
(* Rig.to_jbeam *)

\* list.sort(key=beamSpring, reverse=True): stable, largest spring first.
RECURSIVE InsertBySpring(_, _)
InsertBySpring(sorted, b) ==
    IF sorted = <<>> THEN <<b>>
    ELSE IF Head(sorted).beamSpring >= b.beamSpring
         THEN <<Head(sorted)>> \o InsertBySpring(Tail(sorted), b)
         ELSE <<b>> \o sorted

\* A sort that leaves the beams where they are.
SortBeams_Kept(bs, k) == SubSeq(bs, 1, k)

RECURSIVE SortBeams(_, _)
SortBeams(bs, k) ==
    IF k = 0 THEN <<>> ELSE InsertBySpring(SortBeams(bs, k - 1), bs[k])

\* What to_jbeam writes is kept as the sequence of its sections, each with
\* its name and its items in the order written. An item is a row of the
\* section's table or a marker {key: value} written between the rows.
Row(value) == [kind |-> "row", key |-> "", value |-> value]
Marker(key, value) == [kind |-> "marker", key |-> key, value |-> value]
Section(name, items) == [name |-> name, items |-> items]

\* What a marker carries for the value v: str(v).lower() of a bool, "|" and
\* the name of a beam type or material, the list of the groups or "" for
\* the empty list, str(v) of a number, which reads back as the same number.
Encode(key, v) ==
    CASE key \in {"selfCollision", "beamDampRebound"} -> IF v THEN "true" ELSE "false"
      [] key \in {"beamType", "material"} -> <<"|", v>>
      [] key = "group" -> [text |-> IF v = <<>> THEN "" ELSE "[]", list |-> v]
      [] OTHER -> v

\* A writer that does not remember what it wrote: last stays as it is.
RECURSIVE WriteMarkers_Forgetful(_, _, _, _)
WriteMarkers_Forgetful(rec, keys, last, k) ==
    IF k > Len(keys) THEN [items |-> <<>>, last |-> last]
    ELSE LET key == keys[k][1]
             field == keys[k][2]
             rest == WriteMarkers_Forgetful(rec, keys, last, k + 1)
         IN  [items |-> (IF rec[field] # last[field]
                         THEN <<Marker(key, Encode(key, rec[field]))>> ELSE <<>>)
                        \o rest.items,
              last |-> rest.last]

\* The tests "if x.field != last_field" before a row, from the k-th on: keys
\* holds for each the key of the marker and the field, last the values in
\* force. A field that differs is written as a marker and remembered. The
\* values remembered (next) and what the later tests give (rest) are bound
\* as the elements of one-element sets, so that each is computed once.
RECURSIVE WriteMarkers(_, _, _, _)
WriteMarkers(rec, keys, last, k) ==
    IF k > Len(keys) THEN [items |-> <<>>, last |-> last]
    ELSE LET key == keys[k][1]
             field == keys[k][2]
             changed == rec[field] # last[field]
             marker == IF changed THEN <<Marker(key, Encode(key, rec[field]))>> ELSE <<>>
         IN  CHOOSE written \in
                 {[items |-> marker \o rest.items, last |-> rest.last] :
                     rest \in {WriteMarkers(rec, keys, next, k + 1) :
                                  next \in {IF changed THEN [last EXCEPT ![field] = rec[field]]
                                            ELSE last}}} : TRUE

\* The loop over the records of a collection, from the i-th on: the markers
\* of a record, then its row; m is what the tests before the row give.
RECURSIVE WriteTable(_, _, _, _, _)
WriteTable(records, rows, keys, last, i) ==
    IF i > Len(records) THEN <<>>
    ELSE CHOOSE items \in
             {m.items \o <<Row(rows[i])>>
                  \o WriteTable(records, rows, keys, m.last, i + 1) :
                 m \in {WriteMarkers(records[i], keys, last, 1)}} : TRUE

\* A table without markers.
WriteRows(rows) == [i \in DOMAIN rows |-> Row(rows[i])]

\* rig.py lines 1064-1068 and 1105-1114: the keys of the markers of nodes
\* and of beams with the fields they follow, and the values in force before
\* the first row.
NodeKeys ==
    <<<<"nodeWeight", "mass">>, <<"frictionCoef", "frictionCoef">>,
      <<"selfCollision", "selfCollision">>, <<"group", "group">>>>
NodeLast ==
    [mass |-> RInt(-1), frictionCoef |-> RInt(1), selfCollision |-> FALSE, group |-> <<>>]
BeamKeys ==
    <<<<"beamDampRebound", "beamDampRebound">>, <<"beamType", "type">>,
      <<"beamSpring", "beamSpring">>, <<"beamDamp", "beamDamp">>,
      <<"beamDeform", "beamDeform">>, <<"beamStrength", "beamStrength">>,
      <<"beamShortBound", "beamShortBound">>, <<"beamLongBound", "beamLongBound">>,
      <<"beamPrecompression", "beamPrecompression">>, <<"breakGroup", "breakGroup">>>>
BeamLast ==
    [beamDampRebound |-> FALSE, type |-> "NONEXISTANT", beamSpring |-> -1,
     beamDamp |-> -1, beamDeform |-> -1, beamStrength |-> -1,
     beamShortBound |-> RInt(-1), beamLongBound |-> RInt(-1),
     beamPrecompression |-> RInt(-1), breakGroup |-> ""]

\* rig.py lines 910-916 and 995-1001: a flexbody or prop one of whose three
\* nodes is no node of the rig is passed over.
HasItsNodes(r, p) == {p.refnode, p.xnode, p.ynode} \subseteq NodeNameSet(r)

\* rig.py lines 950-954 and 1037-1041: the mesh without .mesh or .dae.
MeshName(mesh) ==
    IF endswith(mesh, Dot_mesh) THEN SubSeq(mesh, 1, Len(mesh) - 5)
    ELSE IF endswith(mesh, Dot_dae) THEN SubSeq(mesh, 1, Len(mesh) - 4)
    ELSE mesh

\* rig.py lines 918-939 and 962-964: pos, rot and scale of a flexbody, each
\* as its x, y and z; Y and Z of the source change places.
FlexbodyTransform(fb) ==
    [pos |-> <<fb.offsetX, fb.offsetZ, fb.offsetY>>,
     rot |-> <<fb.rotX, fb.rotZ, fb.rotY>>, scale |-> fb.scale]

\* rig.py lines 957-989: the row of a flexbody. The flexbodies of this model
\* have no non-flex materials and none of the enhanced properties.
FlexbodyRow(r, fb) ==
    <<MeshName(fb.mesh), get_group_name(fb)>>
    \o (IF ~r.no_transform_properties THEN <<FlexbodyTransform(fb)>> ELSE <<>>)

\* rig.py lines 1010-1034 and 1057-1058: base rotation, rotation,
\* translation, min, max, offset and multiplier of a prop.
PropTransform(prop) ==
    LET animated == prop.animation_factor # RInt(0)
        turns == animated /\ prop.animation_mode = "rotation"
        slides == animated /\ prop.animation_mode = "translation"
    IN  [baseRotation |-> <<prop.rotX, prop.rotZ, prop.rotY>>,
         rotation |-> IF turns THEN prop.animation_axis ELSE <<0, 0, 0>>,
         translation |-> IF slides THEN prop.animation_axis ELSE <<0, 0, 0>>,
         min |-> IF turns THEN -180 ELSE IF slides THEN -1 ELSE 0,
         max |-> IF turns THEN 180 ELSE IF slides THEN 1 ELSE 0,
         offset |-> 0,
         multiplier |-> IF turns \/ slides THEN prop.animation_factor ELSE RInt(1)]

\* rig.py lines 1043-1060: the row of a prop after its func.
PropRow(r, prop) ==
    <<MeshName(prop.mesh), <<prop.refnode>>, <<prop.xnode>>, <<prop.ynode>>>>
    \o (IF ~r.no_transform_properties THEN <<PropTransform(prop)>> ELSE <<>>)

\* rig.py lines 1186-1207: the triangles, the legacy triangles as collision
\* triangles, and the two triangles of every quad.
AllTriangles(r) ==
    LET legacy == [k \in DOMAIN r.legacy_triangles |->
                      Triangle(r.legacy_triangles[k][1], r.legacy_triangles[k][2],
                               r.legacy_triangles[k][3], "collision")]
        RECURSIVE OfQuads(_)
        OfQuads(k) ==
            IF k > Len(r.quads) THEN <<>> ELSE to_triangles(r.quads[k]) \o OfQuads(k + 1)
    IN  r.triangles \o legacy \o OfQuads(1)

TriangleRows(ts) ==
    [k \in DOMAIN ts |-> <<ts[k].node1, ts[k].node2, ts[k].node3>>]

\* WheelTypeA, a wheel of the section wheels, and WheelTypeB, a wheel of
\* the section wheels2, with the fields and the type of the source.
WheelTypeA(radius, width, num_rays, nid1, nid2, snode, braketype, drivetype, armnode, mass, spring, damp) ==
    [type |-> "wheels", radius |-> radius, width |-> width, num_rays |-> num_rays,
     nid1 |-> nid1, nid2 |-> nid2, snode |-> snode, braketype |-> braketype,
     drivetype |-> drivetype, armnode |-> armnode, mass |-> mass,
     spring |-> spring, damp |-> damp]

WheelTypeB(tire_radius, hub_radius, width, num_rays, nid1, nid2, snode, braketype, drivetype, armnode, mass, tire_spring, tire_damp, hub_spring, hub_damp) ==
    [type |-> "wheels.advanced", tire_radius |-> tire_radius,
     hub_radius |-> hub_radius, width |-> width, num_rays |-> num_rays,
     nid1 |-> nid1, nid2 |-> nid2, snode |-> snode, braketype |-> braketype,
     drivetype |-> drivetype, armnode |-> armnode, mass |-> mass,
     tire_spring |-> tire_spring, tire_damp |-> tire_damp,
     hub_spring |-> hub_spring, hub_damp |-> hub_damp]

\* The locals of the wheel writer before the first wheel.
WheelLast ==
    [wheel_spring |-> -1, wheel_damp |-> -1, tire_damp |-> -1, tire_spring |-> -1,
     numrays |-> -1, width |-> -1, hub_radius |-> -1, radius |-> -1,
     propulsed |-> 0, mass |-> 0, wheel_type |-> "NONE",
     wrote_advanced_wheel |-> FALSE]

\* The markers written under a condition.
WrittenIf(condition, markers) == IF condition THEN markers ELSE <<>>

\* if w.mass != last_mass: the weight markers of a wheel, written when the
\* mass of the wheel is not the mass of the wheel before it.
WeightMarkers(w, last) ==
    WrittenIf(w.mass # last.mass,
        IF w.type = "wheels"
        THEN <<Marker("hubNodeWeight", Rat(w.mass, w.num_rays * 2))>>
        ELSE <<Marker("nodeWeight", Rat(w.mass, w.num_rays * 4)),
               Marker("hubNodeWeight", Rat(w.mass, w.num_rays * 4))>>)

\* The markers written before the row of the wheel w when the locals of the
\* writer are last. Every test reads a local of its own, so the markers are
\* those of the tests in the order of the code.
WheelMarkers(r, w, last) ==
    WrittenIf(last.wheel_type # w.type,
        IF w.type = "wheels"
        THEN <<Marker("hasTire", "false"), Marker("hubNodeMaterial", <<"|", "NM_RUBBER">>)>>
        ELSE <<Marker("hasTire", "true"), Marker("hubNodeMaterial", <<"|", "NM_METAL">>)>>)
    \o WrittenIf(w.drivetype > 0 /\ last.propulsed = 0 /\ Len(r.axles) = 0,
        <<Marker("propulsed", 1)>>)
    \o WrittenIf(w.drivetype = 0 /\ last.propulsed = 1 /\ Len(r.axles) = 0,
        <<Marker("propulsed", 0)>>)
    \o WrittenIf(w.width # last.width,
        <<Marker("hubWidth", w.width), Marker("tireWidth", w.width)>>)
    \o WrittenIf(w.num_rays # last.numrays, <<Marker("numRays", w.num_rays)>>)
    \o WeightMarkers(w, last)
    \o (IF w.type = "wheels"
        THEN WrittenIf(w.spring # last.wheel_spring, <<Marker("beamSpring", w.spring)>>)
             \o WrittenIf(w.damp # last.wheel_damp, <<Marker("beamDamp", w.damp)>>)
             \o WrittenIf(w.radius # last.hub_radius, <<Marker("hubRadius", w.radius)>>)
        ELSE WrittenIf(~last.wrote_advanced_wheel,
                <<Marker("disableMeshBreaking", "true"),
                  Marker("disableHubMeshBreaking", "false"),
                  Marker("enableTireReinfBeams", "true"),
                  Marker("pressurePSI", 30)>>)
             \o WrittenIf(w.hub_spring # last.wheel_spring,
                <<Marker("beamSpring", w.hub_spring)>>)
             \o WrittenIf(w.hub_damp # last.wheel_damp, <<Marker("beamDamp", w.hub_damp)>>)
             \o WrittenIf(w.tire_damp # last.tire_damp,
                <<Marker("wheelSideBeamDamp", w.tire_damp),
                  Marker("wheelSideBeamDampExpansion", w.tire_damp),
                  Marker("wheelReinfBeamDamp", w.tire_damp),
                  Marker("wheelTreadBeamDamp", w.tire_damp),
                  Marker("wheelPeripheryBeamDamp", w.tire_damp)>>)
             \o WrittenIf(w.tire_spring # last.tire_spring,
                <<Marker("wheelSideBeamSpringExpansion", w.tire_spring),
                  Marker("wheelReinfBeamSpring", w.tire_spring),
                  Marker("wheelTreadBeamSpring", w.tire_spring),
                  Marker("wheelPeripheryBeamSpring", w.tire_spring)>>)
             \o WrittenIf(w.tire_radius # last.radius, <<Marker("radius", w.tire_radius)>>))

\* The locals of the writer after the row of the wheel w.
WheelLastAfter(r, w, last) ==
    LET common ==
            [last EXCEPT
                !.wheel_type = w.type,
                !.propulsed =
                    IF w.drivetype > 0 /\ last.propulsed = 0 /\ Len(r.axles) = 0 THEN 1
                    ELSE IF w.drivetype = 0 /\ last.propulsed = 1 /\ Len(r.axles) = 0
                    THEN 0 ELSE last.propulsed,
                !.width = w.width,
                !.numrays = w.num_rays,
                !.mass = w.mass]
    IN  IF w.type = "wheels"
        THEN [common EXCEPT !.wheel_spring = w.spring, !.wheel_damp = w.damp,
                            !.hub_radius = w.radius]
        ELSE [common EXCEPT !.wrote_advanced_wheel = TRUE,
                            !.wheel_spring = w.hub_spring, !.wheel_damp = w.hub_damp,
                            !.tire_damp = w.tire_damp, !.tire_spring = w.tire_spring,
                            !.radius = w.tire_radius]

\* The locals of the writer after the rows of the first k wheels.
RECURSIVE WheelLastAt(_, _)
WheelLastAt(r, k) ==
    IF k = 0 THEN WheelLast
    ELSE WheelLastAfter(r, r.wheels[k], WheelLastAt(r, k - 1))

\* for w in self.wheels: the markers and the row of each of the first k
\* wheels, in the order written.
RECURSIVE WriteWheelsUpTo(_, _)
WriteWheelsUpTo(r, k) ==
    IF k = 0 THEN <<>>
    ELSE WriteWheelsUpTo(r, k - 1)
         \o WheelMarkers(r, r.wheels[k], WheelLastAt(r, k - 1))
         \o <<Row(<<r.wheels[k].nid1, r.wheels[k].nid2>>)>>

\* The items of the section pressureWheels: the marker of the brakes of a
\* rig that has them, the marker of rollon, then the wheels.
WriteWheels(r) ==
    WrittenIf(Len(r.brakes) > 0,
        <<Marker("brakeTorque", r.brakes[1]), Marker("parkingTorque", r.brakes[2])>>)
    \o WrittenIf(r.rollon, <<Marker("selfCollision", "true")>>)
    \o WriteWheelsUpTo(r, Len(r.wheels))

\* A writer that writes the head of every section, with or without rows.
OptionalSection_Always(present, name, items) == <<Section(name, items)>>

\* if len(self.collection) > 0, if self.record is not None: the section is
\* written when there is something to write.
OptionalSection(present, name, items) ==
    IF present THEN <<Section(name, items)>> ELSE <<>>

\* The sections to_jbeam writes, in the order it writes them. Of the engine
\* and of the torque curve the section alone is kept, of the wheels the
\* markers and the two nodes of each row; material None is "None" and
\* dragCoef None is <<>>.
Sections(r) ==
    LET flexbodies == SelectSeq(r.flexbodies, LAMBDA p : HasItsNodes(r, p))
        props == SelectSeq(r.props, LAMBDA p : HasItsNodes(r, p))
        collision_triangles == SelectSeq(AllTriangles(r), is_collision)
        visual_triangles ==
            SelectSeq(AllTriangles(r), LAMBDA t : is_visual(t) /\ ~is_collision(t))
    IN  <<Section("information", <<Row(r.name)>>)>>
        \o OptionalSection(r.refnodes # <<>>, "refNodes",
               [k \in DOMAIN r.refnodes |->
                   Row(<<r.refnodes[k].center, r.refnodes[k].back,
                         r.refnodes[k].left, r.refnodes[k].center>>)])
        \o OptionalSection(r.torquecurve, "enginetorque", <<>>)
        \o OptionalSection(r.engine, "engine", <<>>)
        \o OptionalSection(Len(r.internal_cameras) > 0, "camerasInternal",
               <<Marker("nodeWeight", 20)>>
               \o WriteTable(r.internal_cameras,
                      [k \in DOMAIN r.internal_cameras |-> r.internal_cameras[k].id1],
                      <<<<"beamSpring", "beamSpring">>, <<"beamDamp", "beamDamp">>>>,
                      [beamSpring |-> -1, beamDamp |-> -1], 1))
        \o OptionalSection(Len(r.flexbodies) > 0, "flexbodies",
               WriteRows([k \in DOMAIN flexbodies |-> FlexbodyRow(r, flexbodies[k])]))
        \o OptionalSection(Len(r.props) > 0, "props",
               WriteRows([k \in DOMAIN props |-> PropRow(r, props[k])]))
        \o OptionalSection(Len(r.nodes) > 0, "nodes",
               WriteTable(r.nodes,
                   [k \in DOMAIN r.nodes |->
                       [id |-> r.nodes[k].name, posX |-> r.nodes[k].x,
                        posY |-> r.nodes[k].y, posZ |-> r.nodes[k].z,
                        couplerTag |-> r.nodes[k].coupler]],
                   NodeKeys, NodeLast, 1))
        \o OptionalSection(Len(r.beams) > 0, "beams",
               WriteTable(r.beams,
                   [k \in DOMAIN r.beams |-> <<r.beams[k].id1, r.beams[k].id2>>],
                   BeamKeys, BeamLast, 1))
        \o OptionalSection(Len(r.rails) > 0, "rails",
               WriteRows([k \in DOMAIN r.rails |-> r.rails[k].name]))
        \o OptionalSection(Len(r.slidenodes) > 0, "slidenodes",
               WriteRows([k \in DOMAIN r.slidenodes |->
                             <<r.slidenodes[k].node, r.slidenodes[k].rail>>]))
        \o OptionalSection(Len(r.axles) > 0, "differentials",
               WriteRows([k \in DOMAIN r.axles |-> <<r.axles[k].wid1, r.axles[k].wid2>>]))
        \o OptionalSection(Len(collision_triangles) > 0, "triangles",
               WriteTable(collision_triangles, TriangleRows(collision_triangles),
                   <<<<"material", "material">>, <<"dragCoef", "drag_coefficient">>>>,
                   [material |-> "None", drag_coefficient |-> <<>>], 1))
        \o OptionalSection(Len(visual_triangles) > 0, "visualTriangles",
               WriteTable(visual_triangles, TriangleRows(visual_triangles),
                   <<<<"material", "material">>>>, [material |-> "None"], 1))
        \o OptionalSection(Len(r.wheels) > 0, "pressureWheels", WriteWheels(r))
        \o OptionalSection(Len(r.hydros) > 0, "hydros",
               WriteTable(r.hydros,
                   [k \in DOMAIN r.hydros |-> <<r.hydros[k].id1, r.hydros[k].id2>>],
                   <<<<"beamSpring", "beamSpring">>, <<"beamDamp", "beamDamp">>,
                     <<"beamDeform", "beamDeform">>, <<"beamStrength", "beamStrength">>>>,
                   [beamSpring |-> -1, beamDamp |-> -1, beamDeform |-> -1,
                    beamStrength |-> -1], 1))

to_jbeam(r) ==
    _assign_flexbody_groups([r EXCEPT !.beams = SortBeams(@, Len(@))])

----------------------------------------------------------------------------
(* Rig.from_file *)

\* A line of the file is the sequence of its lexemes: words, and the
\* characters "," ";" " " and "\n" each on its own.
Whitespace == {" ", "\t", "\r", "\n"}

RECURSIVE lstrip(_)
lstrip(s) == IF s # <<>> /\ s[1] \in Whitespace THEN lstrip(Tail(s)) ELSE s
RECURSIVE rstrip(_)
rstrip(s) ==
    IF s # <<>> /\ s[Len(s)] \in Whitespace THEN rstrip(SubSeq(s, 1, Len(s) - 1)) ELSE s
strip(s) == rstrip(lstrip(s))

\* str.split(sep): the pieces between the occurrences of sep.
RECURSIVE split(_, _)
split(s, sep) ==
    IF \E i \in DOMAIN s : s[i] = sep
    THEN LET i == CHOOSE i \in DOMAIN s : s[i] = sep /\ \A j \in 1..(i - 1) : s[j] # sep
         IN  <<SubSeq(s, 1, i - 1)>> \o split(SubSeq(s, i + 1, Len(s)), sep)
    ELSE <<s>>

\* parser.PrepareLine: None for a blank line and for a line that starts with
\* ";", else the trimmed pieces between the commas.
PrepareLine(line) ==
    LET stripped == strip(line)
    IN  IF stripped = <<>> \/ stripped[1] = ";"
        THEN [is_none |-> TRUE, line_cmps |-> <<>>]
        ELSE [is_none |-> FALSE,
              line_cmps |-> [k \in DOMAIN split(stripped, ",") |->
                                strip(split(stripped, ",")[k])]]

truck_sections ==
    {"globals", "nodes", "nodes2", "beams", "cameras", "cinecam", "engine",
     "engoption", "engturbo", "brakes", "hydros", "animators", "commands",
     "commands2", "rotators", "rotators2", "wings", "collisionboxes", "rescuer",
     "managedmaterials", "contacters", "triggers", "lockgroups", "hooks",
     "submesh", "slidenodes", "railgroups", "ropes", "fixes", "ties", "ropables",
     "particles", "rigidifiers", "torquecurve", "cruisecontrol", "axles",
     "shocks", "shocks2", "flares", "flares2", "materialflarebindings", "props",
     "flexbodies", "flexbodywheels", "meshwheels2", "meshwheels", "wheels",
     "wheels2", "airbrakes", "turboprops", "fusedrag", "turbojets", "pistonprops",
     "screwprops", "description", "rollon", "comment", "soundsources", "minimass",
     "disabledefaultsounds", "guisettings", "triangles", "quads", "forset"}

truck_inline_sections ==
    {"set_skeleton_settings", "set_beam_defaults", "set_beam_defaults_scale",
     "set_node_defaults", "enable_advanced_deformation", "end", "guid",
     "fileformatversion", "author", "fileinfo", "slopebrake", "tractioncontrol",
     "antilockbrakes", "disable_flexbody_shadow", "flexbody_camera_mode",
     "prop_camera_mode", "forsetsection", "sectionconfig", "importcommands",
     "forwardcommands", "forset", "detacher_group"}

\* line_cmps[0] in names: the component is one word and the word is a name.
IsNameIn(cmp, names) == Len(cmp) = 1 /\ cmp[1] \in names

\* The numerals the files of this model are written with, and their values.
NumberOf ==
    [w \in {"0", "1", "2", "3", "500", "1000"} |->
        CASE w = "0" -> 0 [] w = "1" -> 1 [] w = "2" -> 2 [] w = "3" -> 3
          [] w = "500" -> 500 [] w = "1000" -> 1000]

\* float(s) succeeds; otherwise it raises ValueError.
IsNumber(cmp) == IsNameIn(cmp, DOMAIN NumberOf)
float(cmp) == NumberOf[cmp[1]]

\* parser.ParseNodeName: a numeric identifier gets the prefix "node".
ParseNodeName(cmp) ==
    CASE cmp = <<"0">> -> "node0" [] cmp = <<"1">> -> "node1"
      [] cmp = <<"2">> -> "node2" [] cmp = <<"3">> -> "node3"
      [] OTHER -> cmp[1]

\* The state of the parse: the file as it is on disk (exists, lines), and the
\* locals of from_file.
NewParse(exists, lines) ==
    [exists |-> exists, lines |-> lines,
     trucklines |-> <<>>, line_number |-> 0, done |-> FALSE,
     current_section |-> "None", lines_parsed |-> 0,
     last_beamspring |-> 9000000, last_beamdamp |-> 12000,
     last_beamdeform |-> 400000, last_beamstrength |-> 1000000,
     springscale |-> 1, dampscale |-> 1, deformscale |-> 1, strengthscale |-> 1,
     cur_detach_group |-> 0, last_loadweight |-> RInt(0), last_friction |-> RInt(1)]

\* No file takes part: the rig is built by its caller.
NoFile == NewParse(FALSE, <<>>)

\* rig.py lines 368-369: if not trucklines.
FileIsEmpty_Never(trucklines) == FALSE

FileIsEmpty(trucklines) == trucklines = <<>>

\* rig.py lines 397-403: the first line is the title.
ParseTitle(p, r, line, line_number) ==
    LET name == strip(SelectSeq(line, LAMBDA c : c # "\n"))
    IN  [parse |-> [p EXCEPT !.lines_parsed = @ + 1],
         rig |-> IF name = <<>>
                 THEN add_warning([r EXCEPT !.name = <<"Untitled", " ", "Rig">>],
                                  "Empty title line, using default name", <<>>, line_number)
                 ELSE [r EXCEPT !.name = name]]

\* An error entry that does not say which line it is about.
LineError_NoNumber(p, r, line_number) ==
    [parse |-> [p EXCEPT !.lines_parsed = @ + 1],
     rig |-> add_error(r, "Error parsing line", <<>>, 0)]

\* rig.py lines 587-590: except Exception.
LineError(p, r, line_number) ==
    [parse |-> [p EXCEPT !.lines_parsed = @ + 1],
     rig |-> add_error(r, "Error parsing line", <<>>, line_number)]

\* int(s) succeeds on a numeral; otherwise it raises ValueError.
IsInt(cmp) == IsNameIn(cmp, DOMAIN NumberOf)
int(cmp) == NumberOf[cmp[1]]

\* rig.py lines 466-468: except (ValueError, IndexError) around a directive.
InlineError(p, r, section_name, line_number) ==
    [parse |-> p,
     rig |-> add_error(r, "Error parsing {section_name}", <<section_name>>, line_number)]

\* A loop that end does not leave: the directive is consumed like the others.
ParseInline_EndContinues(p, r, line_cmps, line_number) == [parse |-> p, rig |-> r]

\* parser.ParseForset: the ranges of the components after the name of the
\* directive, "a-b" for a to b and "a" for a alone; a component that is
\* neither raises ValueError. The ranges the files of this model are written
\* with, and their bounds.
RangeOf ==
    [w \in {"0", "1", "0-1", "1-3"} |->
        CASE w = "0" -> <<0, 0>> [] w = "1" -> <<1, 1>>
          [] w = "0-1" -> <<0, 1>> [] w = "1-3" -> <<1, 3>>]

CanParseForset(line_cmps) ==
    \A k \in 2..Len(line_cmps) : IsNameIn(line_cmps[k], DOMAIN RangeOf)
ParseForset(line_cmps) == [k \in 1..(Len(line_cmps) - 1) |-> RangeOf[line_cmps[k + 1][1]]]

\* A forset that takes its numbers for identifiers of nodes.
NodeAt_ByIdentifier(r, cr) ==
    CASE cr = 0 -> "node0" [] cr = 1 -> "node1" [] cr = 2 -> "node2" [] cr = 3 -> "node3"

\* rig.py line 459: self.nodes[cr].name, cr counted from 0.
NodeAt(r, cr) == r.nodes[cr + 1].name

\* rig.py lines 454-463: the loop over one range from cr on. An index that is
\* no place of the node list is warned about and ends the range; the name
\* of a node is appended to the forset_nodes of the last flexbody unless it
\* is there.
RECURSIVE ExpandRange(_, _, _, _)
ExpandRange(r, cr, last, line_number) ==
    IF cr > last THEN r
    ELSE IF cr >= Len(r.nodes)
    THEN add_warning(r, "forset references invalid node index {cr}", <<cr>>, line_number)
    ELSE LET node_name == NodeAt(r, cr)
             forset_nodes == r.flexbodies[Len(r.flexbodies)].forset_nodes
         IN  ExpandRange(
                 IF InSeq(node_name, forset_nodes) THEN r
                 ELSE [r EXCEPT !.flexbodies[Len(r.flexbodies)].forset_nodes =
                                    Append(@, node_name)],
                 cr + 1, last, line_number)

\* rig.py lines 453-463: the loop over the ranges from the k-th on.
RECURSIVE ExpandForset(_, _, _, _)
ExpandForset(r, forset, k, line_number) ==
    IF k > Len(forset) THEN r
    ELSE ExpandForset(ExpandRange(r, forset[k][1], forset[k][2], line_number),
                      forset, k + 1, line_number)

\* parser.ParseSetBeamDefaults: the four numbers after the name of the
\* directive, spring, damp, deform and strength; a component that is no
\* number raises ValueError.
CanParseSetBeamDefaults(line_cmps) == \A k \in 2..5 : IsNumber(line_cmps[k])
ParseSetBeamDefaults(line_cmps) == [k \in 1..4 |-> float(line_cmps[k + 1])]

\* parser.ParseSetNodeDefaults: the load weight and the friction are the
\* first two numbers after the name of the directive.
CanParseSetNodeDefaults(line_cmps) == \A k \in 2..3 : IsNumber(line_cmps[k])
ParseSetNodeDefaults(line_cmps) == [k \in 1..2 |-> RInt(float(line_cmps[k + 1]))]

\* A set_beam_defaults_scale that sets the defaults themselves.
SetBeamDefaultsScale_AsDefaults(p, values) ==
    [p EXCEPT !.last_beamspring = values[1], !.last_beamdamp = values[2],
              !.last_beamdeform = values[3], !.last_beamstrength = values[4]]

\* rig.py lines 422-423: the four factors.
SetBeamDefaultsScale(p, values) ==
    [p EXCEPT !.springscale = values[1], !.dampscale = values[2],
              !.deformscale = values[3], !.strengthscale = values[4]]

\* rig.py lines 417-470: a line whose first component is an inline directive.
\* Of the directives the branches of set_beam_defaults,
\* set_beam_defaults_scale, set_node_defaults, detacher_group, forset and end
\* are modelled; the branch of author is not entered by the files of this
\* model, and the branch of rollon cannot be entered because rollon is no
\* member of truck_inline_sections. Every directive but end ends in
\* continue, which leaves lines_parsed as it is; end leaves the loop.
ParseInline(p, r, line_cmps, line_number) ==
    LET section_name == line_cmps[1][1]
        num_components == Len(line_cmps)
    IN  IF section_name = "set_beam_defaults" /\ num_components >= 5
        THEN IF CanParseSetBeamDefaults(line_cmps)
             THEN LET values == ParseSetBeamDefaults(line_cmps)
                  IN  [parse |-> [p EXCEPT !.last_beamspring = values[1],
                                           !.last_beamdamp = values[2],
                                           !.last_beamdeform = values[3],
                                           !.last_beamstrength = values[4]],
                       rig |-> r]
             ELSE InlineError(p, r, section_name, line_number)
        ELSE IF section_name = "set_beam_defaults_scale" /\ num_components >= 5
        THEN IF CanParseSetBeamDefaults(line_cmps)
             THEN [parse |-> SetBeamDefaultsScale(p, ParseSetBeamDefaults(line_cmps)),
                   rig |-> r]
             ELSE InlineError(p, r, section_name, line_number)
        ELSE IF section_name = "set_node_defaults" /\ num_components >= 5
        THEN IF CanParseSetNodeDefaults(line_cmps)
             THEN LET defaults == ParseSetNodeDefaults(line_cmps)
                  IN  [parse |-> [p EXCEPT !.last_loadweight = defaults[1],
                                           !.last_friction = defaults[2]],
                       rig |-> r]
             ELSE InlineError(p, r, section_name, line_number)
        ELSE IF section_name = "detacher_group"
        THEN IF num_components >= 2
             THEN IF IsInt(line_cmps[2])
                  THEN [parse |-> [p EXCEPT !.cur_detach_group = int(line_cmps[2])],
                        rig |-> r]
                  ELSE InlineError(p, r, section_name, line_number)
             ELSE [parse |-> p,
                   rig |-> add_warning(r, "detacher_group missing group ID", <<>>,
                                       line_number)]
        ELSE IF section_name = "forset" /\ Len(r.flexbodies) > 0
        THEN IF CanParseForset(line_cmps)
             THEN [parse |-> p,
                   rig |-> ExpandForset(r, ParseForset(line_cmps), 1, line_number)]
             ELSE InlineError(p, r, section_name, line_number)
        ELSE IF section_name = "end"
        THEN [parse |-> [p EXCEPT !.done = TRUE], rig |-> r]
        ELSE [parse |-> p, rig |-> r]

\* parser.ParseNode on the identifier and the three coordinates, then
\* rig.py lines 481-486.
ParseNodeLine(p, r, line_cmps, line_number) ==
    IF \A k \in 2..4 : IsNumber(line_cmps[k])
    THEN LET node_object ==
                 [Node(ParseNodeName(line_cmps[1]), float(line_cmps[2]),
                       float(line_cmps[3]), float(line_cmps[4]))
                    EXCEPT !.frictionCoef = p.last_friction,
                           !.override_mass = IF RLt(RInt(0), p.last_loadweight)
                                             THEN <<p.last_loadweight>> ELSE @]
         IN  [parse |-> [p EXCEPT !.lines_parsed = @ + 1],
              rig |-> [r EXCEPT !.nodes = Append(@, node_object)]]
    ELSE LineError(p, r, line_number)

\* parser.SetBeamBreakgroup: the beams of a detach group above 0 share a
\* break group named after it; group 0 leaves the beam as it is.
SetBeamBreakgroup(beam, group) ==
    IF group > 0
    THEN [beam EXCEPT !.breakGroup =
              CASE group = 1 -> "detacher_group1" [] group = 2 -> "detacher_group2"
                [] group = 3 -> "detacher_group3" [] OTHER -> "detacher_group"]
    ELSE beam

\* A beams section that takes the line and appends nothing.
ParseBeamLine_Skipped(p, r, line_cmps, line_number) ==
    [parse |-> [p EXCEPT !.lines_parsed = @ + 1], rig |-> r]

\* parser.ParseBeam on the two identifiers, then rig.py lines 488-490.
ParseBeamLine(p, r, line_cmps, line_number) ==
    LET beam_object ==
            SetBeamBreakgroup(
                Beam(ParseNodeName(line_cmps[1]), ParseNodeName(line_cmps[2]),
                     p.last_beamspring * p.springscale,
                     p.last_beamdamp * p.dampscale,
                     p.last_beamstrength * p.strengthscale,
                     p.last_beamdeform * p.deformscale),
                p.cur_detach_group)
    IN  [parse |-> [p EXCEPT !.lines_parsed = @ + 1],
         rig |-> [r EXCEPT !.beams = Append(@, beam_object)]]

\* parser.ParseFlexbody on the three identifiers, the six numbers and the
\* mesh, then rig.py lines 541-546: a ValueError is recorded as an error of
\* its own. The meshes the files of this model name, as their characters.
MeshOf ==
    [w \in {"body.mesh"} |-> <<"b", "o", "d", "y", ".", "m", "e", "s", "h">>]

ParseFlexbodyLine(p, r, line_cmps, line_number) ==
    [parse |-> [p EXCEPT !.lines_parsed = @ + 1],
     rig |-> IF (\A k \in 4..9 : IsNumber(line_cmps[k]))
                /\ IsNameIn(line_cmps[10], DOMAIN MeshOf)
             THEN [r EXCEPT !.flexbodies =
                      Append(@, Flexbody(ParseNodeName(line_cmps[1]),
                                         ParseNodeName(line_cmps[2]),
                                         ParseNodeName(line_cmps[3]),
                                         float(line_cmps[4]), float(line_cmps[5]),
                                         float(line_cmps[6]), float(line_cmps[7]),
                                         float(line_cmps[8]), float(line_cmps[9]),
                                         MeshOf[line_cmps[10][1]]))]
             ELSE add_error(r, "Error parsing flexbody", <<>>, line_number)]

\* rig.py lines 493-495: dry_weight is assigned before float() of the second
\* component can raise.
ParseGlobalsLine(p, r, line_cmps, line_number) ==
    IF ~IsNumber(line_cmps[1]) THEN LineError(p, r, line_number)
    ELSE LET r1 == [r EXCEPT !.dry_weight = float(line_cmps[1])]
         IN  IF ~IsNumber(line_cmps[2]) THEN LineError(p, r1, line_number)
             ELSE [parse |-> [p EXCEPT !.lines_parsed = @ + 1],
                   rig |-> [r1 EXCEPT !.load_weight = float(line_cmps[2])]]

\* rig.py lines 477-585: the content of a section. Of the sections with a
\* builder the files of this model hold nodes, nodes2, beams, globals and
\* flexbodies.
ParseContent(p, r, line_cmps, line_number) ==
    LET num_components == Len(line_cmps)
    IN  IF p.current_section \in {"nodes", "nodes2"} /\ num_components >= 4
        THEN ParseNodeLine(p, r, line_cmps, line_number)
        ELSE IF p.current_section = "beams" /\ num_components >= 2
        THEN ParseBeamLine(p, r, line_cmps, line_number)
        ELSE IF p.current_section = "globals" /\ num_components >= 2
        THEN ParseGlobalsLine(p, r, line_cmps, line_number)
        ELSE IF p.current_section = "flexbodies" /\ num_components >= 10
        THEN ParseFlexbodyLine(p, r, line_cmps, line_number)
        ELSE [parse |-> [p EXCEPT !.lines_parsed = @ + 1], rig |-> r]

\* The body of the loop over the lines, rig.py lines 393-590.
ParseLine(p, r, line, line_number) ==
    IF p.lines_parsed = 0 THEN ParseTitle(p, r, line, line_number)
    ELSE LET prepared == PrepareLine(line)
             line_cmps == prepared.line_cmps
         IN  IF prepared.is_none \/ Len(line_cmps) = 0
             THEN [parse |-> p, rig |-> r]
             ELSE IF IsNameIn(line_cmps[1], truck_inline_sections)
             THEN ParseInline(p, r, line_cmps, line_number)
             ELSE IF IsNameIn(line_cmps[1], truck_sections)
             THEN [parse |-> [p EXCEPT !.current_section = line_cmps[1][1]], rig |-> r]
             ELSE ParseContent(p, r, line_cmps, line_number)

\* rig.py lines 592-599: the default torque curve, then validate.
FinishParse(r) ==
    validate(IF ~r.torquecurve /\ r.engine THEN [r EXCEPT !.torquecurve = TRUE] ELSE r)

\* from_file as a function of the lines of a file that has lines: the loop of
\* rig.py line 393 from the line after p.line_number to its end, then
\* lines 592-599. It yields the locals of the loop with the rigs that
\* validate can leave.
RECURSIVE RunLines(_, _)
RunLines(p, r) ==
    IF p.done \/ p.line_number = Len(p.trucklines)
    THEN [parse |-> p, rigs |-> FinishParse(r)]
    ELSE LET line_number == p.line_number + 1
             after == ParseLine(p, r, p.trucklines[line_number], line_number)
         IN  RunLines([after.parse EXCEPT !.line_number = line_number], after.rig)

from_file(lines) ==
    RunLines([NewParse(TRUE, lines) EXCEPT !.trucklines = lines], NewRig)

----------------------------------------------------------------------------
(* The operations as steps of a caller *)

Returned(op, value) == [op |-> op, raised |-> FALSE, value |-> value]
Raised(op, exception) == [op |-> op, raised |-> TRUE, value |-> exception]

\* rig.calculate_masses(), truck2jbeam.py line 226.
CalculateMasses ==
    /\ pc = "parsed"
    /\ rig' = calculate_masses(rig)
    /\ pc' = "massed"
    /\ ret' = Returned("calculate_masses", "None")
    /\ UNCHANGED <<jbeam, parse, mesh_mapping>>

\* rig.calculate_masses() called on the rig a second time.
CalculateMassesAgain ==
    /\ pc = "massed"
    /\ rig' = calculate_masses(rig)
    /\ pc' = "remassed"
    /\ ret' = Returned("calculate_masses", "None")
    /\ UNCHANGED <<jbeam, parse, mesh_mapping>>

\* dict[key] = value on a dictionary kept as the set of its items.
SetItem(d, key, value) == {item \in d : item[1] # key} \cup {<<key, value>>}

\* dae_processor.py lines 333-340 and 349-356: the mesh name without .dae
\* or .mesh and the full mesh name are both mapped to the group name.
MapMesh(d, element) ==
    LET original_mesh == element.mesh
        group_name == get_group_name(element)
        mesh_base_name ==
            IF endswith(original_mesh, Dot_dae)
            THEN SubSeq(original_mesh, 1, Len(original_mesh) - 4)
            ELSE IF endswith(original_mesh, Dot_mesh)
            THEN SubSeq(original_mesh, 1, Len(original_mesh) - 5)
            ELSE original_mesh
    IN  SetItem(SetItem(d, mesh_base_name, group_name), original_mesh, group_name)

RECURSIVE MapMeshes(_, _)
MapMeshes(elements, k) ==
    IF k = 0 THEN {} ELSE MapMesh(MapMeshes(elements, k - 1), elements[k])

\* DAEProcessor.generate_mesh_mapping(rig.flexbodies, rig.props).
generate_mesh_mapping(r) ==
    MapMeshes(r.flexbodies \o r.props, Len(r.flexbodies) + Len(r.props))

\* rig.process_dae_files(...), truck2jbeam.py lines 229-238, with
\* dae_processor.py lines 374-420: without the directory the call returns
\* False at once; otherwise the mapping is made and handed to
\* modify_mesh_names for every DAE file, and the call returns whether all of
\* them were processed; an empty mapping returns True.
ProcessDaeFiles ==
    /\ pc = "massed"
    /\ \E exists \in BOOLEAN, processed \in BOOLEAN :
          IF ~exists
          THEN /\ ret' = Returned("process_dae_files", "False")
               /\ UNCHANGED mesh_mapping
          ELSE /\ mesh_mapping' = generate_mesh_mapping(rig)
               /\ ret' = Returned("process_dae_files",
                                  IF processed \/ generate_mesh_mapping(rig) = {}
                                  THEN "True" ELSE "False")
    /\ pc' = "synced"
    /\ UNCHANGED <<rig, jbeam, parse>>

\* rig.to_jbeam(output_path), truck2jbeam.py line 261.
ToJbeam ==
    /\ pc \in {"massed", "synced"}
    /\ \E written \in {to_jbeam(rig)} :
          rig' = written /\ jbeam' = Sections(written)
    /\ UNCHANGED <<parse, mesh_mapping>>
    /\ pc' = "written"
    /\ ret' = Returned("to_jbeam", "None")

\* rig.to_jbeam(output_path) called once more on the rig it was called on.
ToJbeamAgain ==
    /\ pc = "written"
    /\ \E written \in {to_jbeam(rig)} :
          rig' = written /\ jbeam' = Sections(written)
    /\ UNCHANGED <<parse, mesh_mapping>>
    /\ pc' = "rewritten"
    /\ ret' = Returned("to_jbeam", "None")

\* return True, truck2jbeam.py lines 263-264.
ConvertReturn ==
    /\ pc = "written"
    /\ pc' = "done"
    /\ ret' = Returned("convert_single_file", "True")
    /\ UNCHANGED <<rig, jbeam, parse, mesh_mapping>>

\* quad.to_triangles() on the first quad of a rig whose option lists are
\* kept as objects: rig.lists holds the list objects, an options field the
\* place of its list. Each self.options.copy() makes a new list object.
QuadToTriangles ==
    /\ pc = "quad"
    /\ LET q == rig.quads[1]
           lists1 == copy(rig.lists, q.options)
           lists2 == copy(lists1, q.options)
       IN  /\ rig' = [rig EXCEPT !.lists = lists2]
           /\ ret' = Returned("to_triangles", QuadTriangles(q, Len(lists1), Len(lists2)))
    /\ pc' = "split"
    /\ UNCHANGED <<jbeam, parse, mesh_mapping>>

\* x.options.append(option) by the caller of to_triangles, x the quad or
\* one of the two triangles returned: the list object x.options refers to
\* grows, and with it the options of every object that refers to it.
AppendOption ==
    /\ pc = "split"
    /\ \E ref \in {rig.quads[1].options, ret.value[1].options, ret.value[2].options},
          option \in {"c", "v"} :
          rig' = [rig EXCEPT !.lists[ref] = Append(@, option)]
    /\ pc' = "appended"
    /\ UNCHANGED <<ret, jbeam, parse, mesh_mapping>>

----------------------------------------------------------------------------
(* Mass distribution: rigs as from_file leaves them, then the pipeline *)

NodeNames == <<"node1", "node2", "node3", "node4", "node5", "node6">>

\* load_bearer and override_mass of a node.
MassKinds == {<<FALSE, NoOverride>>, <<TRUE, NoOverride>>, <<TRUE, <<60>>>>}

\* dry_weight and load_weight.
WeightChoices == {<<1000, 500>>, <<100, 0>>, <<0, 0>>}

MassNode(i, x, kind) ==
    [Node(NodeNames[i], x, 0, 0) EXCEPT !.load_bearer = kind[1], !.override_mass = kind[2]]

\* The kinds of nodes 1..n, and whether the last node lies where the first
\* one does; otherwise the nodes lie one unit apart.
MassNodeLists ==
    UNION {[1..n -> MassKinds] \X BOOLEAN : n \in 1..MaxNodes}

MassBeam(id1, id2, type) ==
    [Beam(id1, id2, 9000000, 12000, 1000000, 400000) EXCEPT !.type = type]

\* The beams tried on a rig of n nodes: between neighbours, to a name no node
\* has, and a VIRTUAL one.
BeamChoices(n) ==
    {<<NodeNames[i], NodeNames[i + 1], "NORMAL">> : i \in 1..(n - 1)}
    \cup {<<NodeNames[1], "node999", "NORMAL">>}
    \cup (IF n >= 2 THEN {<<NodeNames[1], NodeNames[2], "VIRTUAL">>} ELSE {})

MassBeamLists(n) == UNION {[1..k -> BeamChoices(n)] : k \in 0..MaxBeams}

MassRigs ==
    {[NewRig EXCEPT
        !.nodes = [i \in DOMAIN ns[1] |->
                      MassNode(i, IF ns[2] /\ i = Len(ns[1]) THEN 0 ELSE i - 1, ns[1][i])],
        !.beams = [k \in DOMAIN bs |-> MassBeam(bs[k][1], bs[k][2], bs[k][3])],
        !.dry_weight = w[1], !.load_weight = w[2]] :
     <<ns, bs, w>> \in {x \in MassNodeLists \X MassBeamLists(MaxNodes) \X WeightChoices :
                          \A k \in DOMAIN x[2] : x[2][k] \in BeamChoices(Len(x[1][1]))}}

\* from_file has returned: its last statement, self.validate(), has run.
InitMass ==
    /\ \E r \in MassRigs : rig \in validate(r)
    /\ pc = "parsed"
    /\ ret = Returned("from_file", "None")
    /\ jbeam = <<>>
    /\ mesh_mapping = {}
    /\ parse = NoFile

NextMass == CalculateMasses \/ ToJbeam \/ ConvertReturn

SpecMass == InitMass /\ [][NextMass]_vars

----------------------------------------------------------------------------
(* Mass distribution twice: the rigs of the pipeline with nodes whose mass *)
(* is no longer the one of a new Node, and two calls of calculate_masses  *)

\* The masses the nodes have before the first call: node i has the mass
\* StartMasses[((i + shift) % 3) + 1].
StartMasses == <<RInt(10), RInt(0), Rat(7, 2)>>

RemassRigs ==
    {[r EXCEPT !.nodes = [i \in DOMAIN r.nodes |->
                             [r.nodes[i] EXCEPT !.mass = StartMasses[((i + shift) % 3) + 1]]]] :
     r \in MassRigs, shift \in 0..1}

InitRemass ==
    /\ \E r \in RemassRigs : rig \in validate(r)
    /\ pc = "parsed"
    /\ ret = Returned("from_file", "None")
    /\ jbeam = <<>>
    /\ mesh_mapping = {}
    /\ parse = NoFile

NextRemass == CalculateMasses \/ CalculateMassesAgain

SpecRemass == InitRemass /\ [][NextRemass]_vars

----------------------------------------------------------------------------
(* Visual elements: rigs built as the tests build them, then the resolver *)
(* and the group assigner called on them                                   *)

\* self.rig._resolve_duplicate_mesh_names(), test_truck2jbeam.py line 834.
ResolveDuplicateMeshNames ==
    /\ pc = "built"
    /\ rig' = _resolve_duplicate_mesh_names(rig)
    /\ pc' = "resolved"
    /\ ret' = Returned("_resolve_duplicate_mesh_names", "None")
    /\ UNCHANGED <<jbeam, parse, mesh_mapping>>

\* self.rig._assign_flexbody_groups(), test_truck2jbeam.py line 756.
AssignFlexbodyGroups ==
    /\ pc \in {"built", "resolved"}
    /\ rig' = _assign_flexbody_groups(rig)
    /\ pc' = "assigned"
    /\ ret' = Returned("_assign_flexbody_groups", "None")
    /\ UNCHANGED <<jbeam, parse, mesh_mapping>>

wheel_mesh == <<"w", "h", "e", "e", "l", ".", "m", "e", "s", "h">>
Wheel_MESH == <<"W", "h", "e", "e", "l", ".", "M", "E", "S", "H">>
wheel_001_mesh == <<"w", "h", "e", "e", "l", "_", "0", "0", "1", ".", "m", "e", "s", "h">>
antenna == <<"a", "n", "t", "e", "n", "n", "a">>

FlexbodyMeshes == {wheel_mesh, Wheel_MESH, wheel_001_mesh, antenna}
PropMeshes == {wheel_mesh, wheel_001_mesh, antenna}

\* Triad and forset of a flexbody: a resolvable triad without and with an
\* explicit node list, and a triad with a name no node has.
FlexbodyShapes ==
    {<<<<"node1", "node2", "node3">>, <<>>>>,
     <<<<"node1", "node2", "node3">>, <<"node5">>>>,
     <<<<"node1", "node2", "node999">>, <<"node4", "node2">>>>}

\* Every mesh name with the plain triad, and every shape with wheel.mesh.
FlexbodyChoices ==
    {<<mesh, <<<<"node1", "node2", "node3">>, <<>>>>>> : mesh \in FlexbodyMeshes}
    \cup {<<wheel_mesh, shape>> : shape \in FlexbodyShapes}

MeshFlexbody(mesh, shape) ==
    [Flexbody(shape[1][1], shape[1][2], shape[1][3], 0, 0, 0, 0, 0, 0, mesh)
        EXCEPT !.forset_nodes = shape[2]]

MeshProp(mesh) == Prop("node1", "node2", "node3", 0, 0, 0, 0, 0, 0, mesh)

\* Nodes node1..node5 along a line, the last one far away; as a variant a
\* sixth node that repeats the name node1.
MeshNodes(duplicate) ==
    [i \in 1..5 |-> Node(NodeNames[i], IF i = 5 THEN 10 ELSE i - 1, 0, 0)]
    \o (IF duplicate THEN <<Node("node1", 1, 1, 0)>> ELSE <<>>)

MeshRigs ==
    {[NewRig EXCEPT
        !.nodes = MeshNodes(duplicate),
        !.beams = <<MassBeam("node1", "node2", "NORMAL")>>,
        !.flexbodies = [k \in DOMAIN fs |-> MeshFlexbody(fs[k][1], fs[k][2])],
        !.props = [k \in DOMAIN ps |-> MeshProp(ps[k])]] :
     <<fs, ps, duplicate>> \in
        (UNION {[1..k -> FlexbodyChoices] : k \in 0..MaxFlexbodies})
        \X (UNION {[1..k -> PropMeshes] : k \in 0..MaxProps})
        \X BOOLEAN}

InitMesh ==
    /\ rig \in MeshRigs
    /\ pc = "built"
    /\ ret = Returned("Rig", "None")
    /\ jbeam = <<>>
    /\ mesh_mapping = {}
    /\ parse = NoFile

NextMesh == ResolveDuplicateMeshNames \/ AssignFlexbodyGroups

SpecMesh == InitMesh /\ [][NextMesh]_vars

----------------------------------------------------------------------------
(* Validation: rigs built as the tests build them, then validate called     *)
(* on them, once and a second time                                          *)

\* rig.validate(), test_truck2jbeam.py lines 81, 95 and 107.
Validate ==
    /\ pc \in {"built", "validated", "parsed"}
    /\ rig' \in validate(rig)
    /\ ret' = Returned("validate", IF is_valid(rig) THEN "True" ELSE "False")
    /\ pc' = IF pc = "built" THEN "validated" ELSE "revalidated"
    /\ UNCHANGED <<jbeam, parse, mesh_mapping>>

\* Up to MaxNodes nodes one unit apart, or with the last node at the position
\* of the first.
ValidateNodeLists ==
    {[i \in 1..n |-> Node(NodeNames[i], IF same /\ i = n THEN 0 ELSE i - 1, 0, 0)] :
        <<n, same>> \in (0..MaxNodes) \X BOOLEAN}

\* A beam with both endpoints named node1 and node2, one with a name no node
\* has, and one with two such names.
ValidateBeams ==
    {MassBeam("node1", "node2", "NORMAL"),
     MassBeam("node1", "node999", "NORMAL"),
     MassBeam("node998", "node999", "NORMAL")}

\* dry_weight, load_weight, engine, torquecurve.
ValidateScalars ==
    {<<10000, 10000, FALSE, FALSE>>, <<0, -1, TRUE, FALSE>>, <<500, 0, TRUE, TRUE>>}

BadFlexbody ==
    [Flexbody("node1", "node1", "node777", 0, 0, 0, 0, 0, 0, antenna)
        EXCEPT !.forset_nodes = <<"node777">>,
               !.scale = <<RInt(0), RInt(1), RInt(20)>>]

BadProp ==
    [Prop("node1", "node2", "node3", 0, 0, 0, 0, 0, 0, antenna)
        EXCEPT !.scale = <<RInt(1), RInt(-1), RInt(11)>>,
               !.animation_factor = RInt(1),
               !.animation_mode = "spin"]

\* Surfaces and visual elements of a rig: none; surfaces with names no node
\* has; a flexbody and a prop that every visual check warns about; a
\* flexbody and a prop that pass.
ValidateExtras ==
    {[triangles |-> <<>>, quads |-> <<>>, legacy_triangles |-> <<>>,
      flexbodies |-> <<>>, props |-> <<>>],
     [triangles |-> <<Triangle("node1", "node2", "node999", "c")>>,
      quads |-> <<Quad("node1", "node2", "node998", "node999", "c")>>,
      legacy_triangles |-> <<<<"node1", "node997", "node2">>>>,
      flexbodies |-> <<>>, props |-> <<>>],
     [triangles |-> <<>>, quads |-> <<>>, legacy_triangles |-> <<>>,
      flexbodies |-> <<BadFlexbody>>, props |-> <<BadProp>>],
     [triangles |-> <<Triangle("node1", "node2", "node1", "c")>>,
      quads |-> <<>>, legacy_triangles |-> <<>>,
      flexbodies |-> <<MeshFlexbody(wheel_mesh, <<<<"node1", "node2", "node1">>, <<"node2">>>>)>>,
      props |-> <<MeshProp(wheel_001_mesh)>>]}

ValidateRigs ==
    {[NewRig EXCEPT
        !.nodes = ns, !.beams = bs,
        !.dry_weight = sc[1], !.load_weight = sc[2],
        !.engine = sc[3], !.torquecurve = sc[4],
        !.triangles = ex.triangles, !.quads = ex.quads,
        !.legacy_triangles = ex.legacy_triangles,
        !.flexbodies = ex.flexbodies, !.props = ex.props] :
     <<ns, bs, sc, ex>> \in
        ValidateNodeLists
        \X (UNION {[1..k -> ValidateBeams] : k \in 0..MaxBeams})
        \X ValidateScalars \X ValidateExtras}

InitValidate ==
    /\ rig \in ValidateRigs
    /\ pc = "built"
    /\ ret = Returned("Rig", "None")
    /\ jbeam = <<>>
    /\ mesh_mapping = {}
    /\ parse = NoFile

NextValidate == Validate

SpecValidate == InitValidate /\ [][NextValidate]_vars

----------------------------------------------------------------------------
(* Parsing: a new Rig, from_file on a file, then validate on the rig *)

\* rig.py lines 357-391: the file is read; a file that cannot be read and a
\* file without lines raise RigParseError.
FromFileOpen ==
    /\ pc = "start"
    /\ IF ~parse.exists \/ FileIsEmpty(parse.lines)
       THEN /\ ret' = Raised("from_file", "RigParseError")
            /\ pc' = "raised"
            /\ UNCHANGED parse
       ELSE /\ parse' = [NewParse(parse.exists, parse.lines)
                            EXCEPT !.trucklines = parse.lines]
            /\ pc' = "parsing"
            /\ UNCHANGED ret
    /\ UNCHANGED <<rig, jbeam, mesh_mapping>>

\* One pass of the loop of rig.py line 393.
FromFileLine ==
    /\ pc = "parsing"
    /\ ~parse.done
    /\ parse.line_number < Len(parse.trucklines)
    /\ LET line_number == parse.line_number + 1
           after == ParseLine(parse, rig, parse.trucklines[line_number], line_number)
       IN  /\ parse' = [after.parse EXCEPT !.line_number = line_number]
           /\ rig' = after.rig
    /\ UNCHANGED <<pc, ret, jbeam, mesh_mapping>>

\* The loop is left, by break or after the last line: rig.py lines 592-599.
FromFileReturn ==
    /\ pc = "parsing"
    /\ parse.done \/ parse.line_number = Len(parse.trucklines)
    /\ rig' \in FinishParse(rig)
    /\ ret' = Returned("from_file", "None")
    /\ pc' = "parsed"
    /\ UNCHANGED <<jbeam, parse, mesh_mapping>>

\* The first line of a file: a title, a blank line, and the word end.
TitleChoices ==
    {<<"My", " ", "Truck", "\n">>, <<"\n">>, <<"end", "\n">>}

\* The lines a file is made of after its first line, in groups that are
\* written together: a blank line and a comment; end between blanks; the
\* header of nodes with two node lines; the header of nodes2 with the first
\* of these node lines; a node line with a coordinate that is no number; the
\* header of beams with a beam line; that line of two numbers alone, which
\* is a beam in beams, a pair of weights in globals and too short in nodes;
\* the header of globals with a line of weights; a line of weights whose
\* second is no number; detacher_group with a number and with a word; rollon.
LineChoices ==
    {<< <<"\n">>, <<";", "a", " ", "comment", "\n">> >>,
     << <<" ", "end", "\n">> >>,
     << <<"nodes", "\n">>,
        <<"1", ",", " ", "0", ",", " ", "0", ",", " ", "0", "\n">>,
        <<"2", ",", " ", "1", ",", " ", "0", ",", " ", "0", "\n">> >>,
     << <<"nodes2", "\n">>,
        <<"1", ",", " ", "0", ",", " ", "0", ",", " ", "0", "\n">> >>,
     << <<"2", ",", " ", "x", ",", " ", "0", ",", " ", "0", "\n">> >>,
     << <<"beams", "\n">>, <<"1", ",", " ", "2", "\n">> >>,
     << <<"1", ",", " ", "2", "\n">> >>,
     << <<"globals", "\n">>, <<"1000", ",", " ", "500", "\n">> >>,
     << <<"500", ",", " ", "x", "\n">> >>,
     << <<"detacher_group", ",", " ", "1", "\n">> >>,
     << <<"detacher_group", ",", " ", "x", "\n">> >>,
     << <<"rollon", "\n">> >>}

RECURSIVE JoinLines(_)
JoinLines(parts) == IF parts = <<>> THEN <<>> ELSE Head(parts) \o JoinLines(Tail(parts))

\* The files: a missing one, one without lines, and every file of a first
\* line and up to MaxParts groups of lines.
Files ==
    {NewParse(FALSE, <<>>), NewParse(TRUE, <<>>)}
    \cup {NewParse(TRUE, <<title>> \o JoinLines(parts)) :
            title \in TitleChoices,
            parts \in UNION {[1..n -> LineChoices] : n \in 0..MaxParts}}

InitParse ==
    /\ rig = NewRig
    /\ pc = "start"
    /\ ret = Returned("Rig", "None")
    /\ jbeam = <<>>
    /\ mesh_mapping = {}
    /\ parse \in Files

NextParse == FromFileOpen \/ FromFileLine \/ FromFileReturn \/ Validate

SpecParse == InitParse /\ [][NextParse]_vars

----------------------------------------------------------------------------
(* Serialisation: rigs as a caller can have built them, then to_jbeam *)

\* Three kinds of node: as calculate_masses leaves a light node; heavier,
\* with more friction and self collision; light again and a coupler.
JbeamNode(i, kind) ==
    CASE kind = 1 -> [Node(NodeNames[i], i - 1, 0, 0) EXCEPT !.mass = RInt(50)]
      [] kind = 2 -> [Node(NodeNames[i], i - 1, 0, 0) EXCEPT
                         !.mass = Rat(125, 2), !.frictionCoef = RInt(2),
                         !.selfCollision = TRUE]
      [] kind = 3 -> [Node(NodeNames[i], i - 1, 0, 0) EXCEPT
                         !.mass = RInt(50), !.coupler = TRUE]

\* Three kinds of beam, the k-th beam between the nodes k and k + 1: with
\* the defaults of from_file; softer, of another type and in a break group;
\* as stiff as the first, with other bounds.
JbeamBeam(k, kind) ==
    CASE kind = 1 -> Beam(NodeNames[k], NodeNames[k + 1], 9000000, 12000, 1000000, 400000)
      [] kind = 2 -> [Beam(NodeNames[k], NodeNames[k + 1], 100, 5, 1000000, 400000) EXCEPT
                         !.type = "SUPPORT", !.breakGroup = "detacher_group1",
                         !.beamDampRebound = TRUE, !.beamLongBound = RInt(2)]
      [] kind = 3 -> [Beam(NodeNames[k], NodeNames[k + 1], 9000000, 12000, 1000000, 400000)
                        EXCEPT !.beamShortBound = Rat(1, 2),
                               !.beamPrecompression = Rat(3, 2)]

\* The other collections, in five groups that a rig has or has not.
JbeamExtras ==
    [refnodes |-> <<<<[center |-> "node1", back |-> "node2", left |-> "node3"]>>,
                    TRUE, TRUE,
                    <<[id1 |-> "cam1", beamSpring |-> 8000, beamDamp |-> 800],
                      [id1 |-> "cam2", beamSpring |-> 8000, beamDamp |-> 900]>>>>,
     flexbodies |-> <<<<MeshFlexbody(wheel_mesh, <<<<"node1", "node1", "node1">>, <<"node1">>>>),
                        MeshFlexbody(wheel_mesh, <<<<"node1", "node2", "node999">>, <<>>>>),
                        MeshFlexbody(antenna, <<<<"node1", "node2", "node2">>, <<>>>>)>>,
                      <<MeshProp(antenna),
                        Prop("node2", "node1", "node1", 0, 0, 0, 0, 0, 0, wheel_mesh)>>>>,
     rails |-> <<<<[name |-> "rail1", nodes |-> <<"node1", "node2">>],
                   [name |-> "rail0", nodes |-> <<"node2">>]>>,
                 <<[node |-> "node2", rail |-> "rail1"], [node |-> "node1", rail |-> "rail0"]>>,
                 <<[wid1 |-> "rorwheel1", wid2 |-> "rorwheel0"]>>>>,
     triangles |-> <<<<[Triangle("node1", "node2", "node3", "visual") EXCEPT
                           !.material = "glass"],
                       Triangle("node3", "node2", "node1", "collision"),
                       [Triangle("node2", "node1", "node3", "visual") EXCEPT
                           !.options = <<"c">>, !.drag_coefficient = RInt(1)]>>,
                     <<[Quad("node1", "node2", "node3", "node4", "both") EXCEPT
                           !.material = "glass"],
                       Quad("node4", "node3", "node2", "node1", "visual")>>,
                     <<<<"node3", "node1", "node2">>>>>>,
     wheels |-> <<<<WheelTypeA(1, 1, 10, "node2", "node1", "node9999", 1, 1, "node1",
                               100, 800000, 4000),
                    WheelTypeB(2, 1, 1, 12, "node1", "node2", "node9999", 1, 0, "node2",
                               100, 800000, 4000, 900000, 5000)>>,
                  <<[id1 |-> "node2", id2 |-> "node1", beamSpring |-> 9000000,
                     beamDamp |-> 12000, beamDeform |-> 400000, beamStrength |-> 1000000],
                    [id1 |-> "node1", id2 |-> "node2", beamSpring |-> 9000000,
                     beamDamp |-> 12000, beamDeform |-> 400000, beamStrength |-> 500]>>>>]

\* The groups of collections a rig has: none, one, three or all of them.
JbeamProfiles ==
    {{}, {"refnodes"}, {"flexbodies"}, {"rails"}, {"triangles"}, {"wheels"},
     {"refnodes", "rails", "wheels"}, DOMAIN JbeamExtras}

\* The rigs: up to MaxNodes nodes and up to MaxBeams beams of the three
\* kinds each, and a profile. A rig with a torque curve has an engine.
JbeamRigs ==
    {LET x == JbeamExtras
         has(g) == g \in profile
     IN  [NewRig EXCEPT
            !.nodes = [i \in DOMAIN ns |-> JbeamNode(i, ns[i])],
            !.beams = [k \in DOMAIN bs |-> JbeamBeam(k, bs[k])],
            !.refnodes = IF has("refnodes") THEN x.refnodes[1] ELSE <<>>,
            !.torquecurve = has("refnodes"),
            !.engine = has("refnodes"),
            !.internal_cameras = IF has("refnodes") THEN x.refnodes[4] ELSE <<>>,
            !.flexbodies = IF has("flexbodies") THEN x.flexbodies[1] ELSE <<>>,
            !.props = IF has("flexbodies") THEN x.flexbodies[2] ELSE <<>>,
            !.rails = IF has("rails") THEN x.rails[1] ELSE <<>>,
            !.slidenodes = IF has("rails") THEN x.rails[2] ELSE <<>>,
            !.axles = IF has("rails") THEN x.rails[3] ELSE <<>>,
            !.triangles = IF has("triangles") THEN x.triangles[1] ELSE <<>>,
            !.quads = IF has("triangles") THEN x.triangles[2] ELSE <<>>,
            !.legacy_triangles = IF has("triangles") THEN x.triangles[3] ELSE <<>>,
            !.wheels = IF has("wheels") THEN x.wheels[1] ELSE <<>>,
            !.hydros = IF has("wheels") THEN x.wheels[2] ELSE <<>>] :
     ns \in UNION {[1..n -> 1..3] : n \in 0..MaxNodes},
     bs \in UNION {[1..k -> 1..3] : k \in 0..MaxBeams},
     profile \in JbeamProfiles}

\* calculate_masses has returned; to_jbeam is called next.
InitJbeam ==
    /\ rig \in JbeamRigs
    /\ pc = "massed"
    /\ ret = Returned("calculate_masses", "None")
    /\ jbeam = <<>>
    /\ mesh_mapping = {}
    /\ parse = NoFile

NextJbeam == ToJbeam \/ ConvertReturn

SpecJbeam == InitJbeam /\ [][NextJbeam]_vars

----------------------------------------------------------------------------
(* Sticky defaults: files of directives between node lines and beam lines *)

\* A line of the words given, with ", " between them.
RECURSIVE CommaLine(_)
CommaLine(words) ==
    IF Len(words) = 1 THEN <<words[1], "\n">>
    ELSE <<words[1], ",", " ">> \o CommaLine(Tail(words))

\* The lines after the title, in groups: the header of nodes with a node
\* line; a second node line; the header of beams with a beam line; that
\* beam line alone; set_beam_defaults with four numbers, with one number and
\* with a word among four; set_beam_defaults_scale with four factors;
\* set_node_defaults; detacher_group with a number, and with 0.
DefaultsLineChoices ==
    {<< <<"nodes", "\n">>, CommaLine(<<"1", "0", "0", "0">>) >>,
     << CommaLine(<<"2", "1", "0", "0">>) >>,
     << <<"beams", "\n">>, CommaLine(<<"1", "2">>) >>,
     << CommaLine(<<"1", "2">>) >>,
     << CommaLine(<<"set_beam_defaults", "1000", "500", "3", "2">>) >>,
     << CommaLine(<<"set_beam_defaults", "500">>) >>,
     << CommaLine(<<"set_beam_defaults", "500", "x", "3", "2">>) >>,
     << CommaLine(<<"set_beam_defaults_scale", "2", "3", "500", "1000">>) >>,
     << CommaLine(<<"set_node_defaults", "0", "2", "0", "0">>) >>,
     << CommaLine(<<"detacher_group", "2">>) >>,
     << CommaLine(<<"detacher_group", "0">>) >>}

DefaultsFiles ==
    {NewParse(TRUE, <<<<"My", " ", "Truck", "\n">>>> \o JoinLines(parts)) :
        parts \in UNION {[1..n -> DefaultsLineChoices] : n \in 0..MaxParts}}

InitDefaults ==
    /\ rig = NewRig
    /\ pc = "start"
    /\ ret = Returned("Rig", "None")
    /\ jbeam = <<>>
    /\ mesh_mapping = {}
    /\ parse \in DefaultsFiles

NextDefaults == FromFileOpen \/ FromFileLine \/ FromFileReturn

SpecDefaults == InitDefaults /\ [][NextDefaults]_vars

----------------------------------------------------------------------------

(* Forset: files with nodes, flexbodies and forset directives *)

\* The lines after the title, in groups: the header of nodes with two node
\* lines; the header of flexbodies with one flexbody on one node, and with
\* two; a forset
\* that names a place twice; a forset whose first range runs past the nodes
\* and whose second does not; a forset with a word for a range.
ForsetLineChoices ==
    {<< <<"nodes", "\n">>, CommaLine(<<"2", "0", "0", "0">>),
        CommaLine(<<"1", "1", "0", "0">>) >>,
     << <<"flexbodies", "\n">>,
        CommaLine(<<"1", "1", "1", "0", "0", "0", "0", "0", "0", "body.mesh">>) >>,
     << <<"flexbodies", "\n">>,
        CommaLine(<<"1", "1", "1", "0", "0", "0", "0", "0", "0", "body.mesh">>),
        CommaLine(<<"2", "2", "2", "1", "2", "3", "0", "0", "0", "body.mesh">>) >>,
     << CommaLine(<<"forset", "0-1", "1">>) >>,
     << CommaLine(<<"forset", "1-3", "0">>) >>,
     << CommaLine(<<"forset", "x">>) >>}

ForsetFiles ==
    {NewParse(TRUE, <<<<"My", " ", "Truck", "\n">>>> \o JoinLines(parts)) :
        parts \in UNION {[1..n -> ForsetLineChoices] : n \in 0..MaxParts}}

InitForset ==
    /\ rig = NewRig
    /\ pc = "start"
    /\ ret = Returned("Rig", "None")
    /\ jbeam = <<>>
    /\ mesh_mapping = {}
    /\ parse \in ForsetFiles

NextForset == FromFileOpen \/ FromFileLine \/ FromFileReturn

SpecForset == InitForset /\ [][NextForset]_vars

-----------------------------------------------------------------------------

(* Groups: a flexbody without forset among ten nodes and more *)

\* The number of nodes near the triad.
MaxNear == 11

NearNames ==
    <<"n1", "n2", "n3", "n4", "n5", "n6", "n7", "n8", "n9", "n10", "n11", "n12">>

\* The nodes 1..near on a grid four wide, one unit apart, all of them
\* within the search radius of the triad n1, n4, n9; the nodes of the set
\* grouped, which are among the first two and the last ones, are in the two
\* groups a and b, the others in the groups given as other; as a variant a
\* last node far away.
GroupNodes(near, grouped, other, far) ==
    [i \in 1..near |->
        [Node(NearNames[i], (i - 1) % 4, (i - 1) \div 4, 0)
            EXCEPT !.group = IF i \in grouped THEN << <<"a">>, <<"b">> >> ELSE other]]
    \o (IF far THEN <<Node("far", 100, 0, 0)>> ELSE <<>>)

\* One flexbody on the triad, or two of different meshes on it.
GroupFlexbodies ==
    {<<Flexbody("n1", "n4", "n9", 0, 0, 0, 0, 0, 0, wheel_mesh)>>,
     <<Flexbody("n1", "n4", "n9", 0, 0, 0, 0, 0, 0, wheel_mesh),
       Flexbody("n1", "n4", "n9", 0, 0, 0, 0, 0, 0, antenna)>>}

GroupRigs ==
    {[NewRig EXCEPT !.nodes = GroupNodes(near, grouped, other, far),
                    !.flexbodies = fs] :
     <<near, grouped, other, far, fs>> \in
        {<<nr, g, o, f, s>> \in
            (10..MaxNear) \X (SUBSET ((1..2) \cup (10..MaxNear))) \X {<<>>, << <<"a">> >>}
              \X BOOLEAN \X GroupFlexbodies : g \subseteq 1..nr}}

InitGroups ==
    /\ rig \in GroupRigs
    /\ pc = "built"
    /\ ret = Returned("Rig", "None")
    /\ jbeam = <<>>
    /\ mesh_mapping = {}
    /\ parse = NoFile

NextGroups == AssignFlexbodyGroups

SpecGroups == InitGroups /\ [][NextGroups]_vars

-----------------------------------------------------------------------------

(* Transforms: flexbodies and props with offsets and rotations *)

\* Offsets and rotations as (X, Y, Z) of the source.
TransformChoices == {<<<<1, 2, 3>>, <<0, 0, 0>>>>, <<<<0, 0, 0>>, <<3, 1, 2>>>>}

\* The flexbodies and props tried: on the nodes of the rig with each of the
\* transforms, and one with a node the rig has not.
TransformElements(kind) ==
    {IF kind = "flexbody"
     THEN Flexbody("node1", "node2", id, t[1][1], t[1][2], t[1][3],
                   t[2][1], t[2][2], t[2][3], wheel_mesh)
     ELSE Prop("node1", "node2", id, t[1][1], t[1][2], t[1][3],
               t[2][1], t[2][2], t[2][3], antenna) :
        <<t, id>> \in (TransformChoices \X {"node2"})
                        \cup {<<<<<<1, 2, 3>>, <<3, 1, 2>>>>, "node999">>}}

TransformRigs ==
    {[NewRig EXCEPT
        !.nodes = <<Node("node1", 0, 0, 0), Node("node2", 1, 0, 0)>>,
        !.flexbodies = fs, !.props = ps, !.no_transform_properties = off] :
     fs \in UNION {[1..n -> TransformElements("flexbody")] : n \in 0..2},
     ps \in UNION {[1..n -> TransformElements("prop")] : n \in 0..2},
     off \in BOOLEAN}

InitTransform ==
    /\ rig \in TransformRigs
    /\ pc = "massed"
    /\ ret = Returned("calculate_masses", "None")
    /\ jbeam = <<>>
    /\ mesh_mapping = {}
    /\ parse = NoFile

NextTransform == ToJbeam

SpecTransform == InitTransform /\ [][NextTransform]_vars

-----------------------------------------------------------------------------

(* DAE files: the rigs with flexbodies and props of shared mesh names, the *)
(* DAE files processed before the output is written                         *)

InitSync ==
    /\ \E r \in MeshRigs : rig \in validate(r)
    /\ pc = "massed"
    /\ ret = Returned("calculate_masses", "None")
    /\ jbeam = <<>>
    /\ mesh_mapping = {}
    /\ parse = NoFile

NextSync == ProcessDaeFiles \/ ToJbeam \/ ConvertReturn

SpecSync == InitSync /\ [][NextSync]_vars

-----------------------------------------------------------------------------

(* to_jbeam twice: the rigs with shared mesh names, and rigs of ten nodes   *)
(* and more with flexbodies that search for their nodes                     *)

\* Two flexbodies with a forset on the last of 11 nodes, then one and two
\* flexbodies without forset on the triad n1, n4, n9.
RepeatFlexbodies ==
    LET on(mesh) == [Flexbody("n11", "n11", "n11", 0, 0, 0, 0, 0, 0, mesh)
                        EXCEPT !.forset_nodes = <<"n11">>]
        search(mesh) == Flexbody("n1", "n4", "n9", 0, 0, 0, 0, 0, 0, mesh)
    IN  {<<search(wheel_mesh)>>,
         <<on(antenna), search(wheel_mesh)>>,
         <<on(antenna), on(Dot_mesh), search(wheel_mesh)>>,
         <<on(antenna), on(Dot_mesh), search(wheel_mesh), search(Dot_dae)>>}

RepeatRigs ==
    {[NewRig EXCEPT !.nodes = GroupNodes(11, {}, <<>>, far), !.flexbodies = fs] :
        far \in BOOLEAN, fs \in RepeatFlexbodies}

InitRepeat ==
    /\ \/ \E r \in MeshRigs : rig \in validate(r)
       \/ rig \in RepeatRigs
    /\ pc = "massed"
    /\ ret = Returned("calculate_masses", "None")
    /\ jbeam = <<>>
    /\ mesh_mapping = {}
    /\ parse = NoFile

NextRepeat == ToJbeam \/ ToJbeamAgain

SpecRepeat == InitRepeat /\ [][NextRepeat]_vars

-----------------------------------------------------------------------------
(* Wheels: rigs with wheels of the two kinds, written by to_jbeam *)

MaxWheels == 2

\* A wheel of the section wheels or wheels2 between the two nodes, of a
\* mass, a number of rays and a drive type.
WheelOf(advanced, mass, num_rays, drivetype) ==
    IF advanced
    THEN WheelTypeB(2, 1, 1, num_rays, "node1", "node2", "node9999", 1, drivetype,
                    "node1", mass, 800000, 4000, 900000, 5000)
    ELSE WheelTypeA(1, 1, num_rays, "node1", "node2", "node9999", 1, drivetype,
                    "node1", mass, 800000, 4000)

WheelChoices ==
    {WheelOf(advanced, mass, num_rays, drivetype) :
        advanced \in BOOLEAN, mass \in {100, 200}, num_rays \in {10, 20},
        drivetype \in {0, 1}}

\* The rigs: two nodes and up to MaxWheels wheels between them.
WheelRigs ==
    {[NewRig EXCEPT
        !.nodes = [i \in 1..2 |-> JbeamNode(i, 1)],
        !.wheels = ws] :
     ws \in UNION {[1..n -> WheelChoices] : n \in 0..MaxWheels}}

\* calculate_masses has returned; to_jbeam is called next.
InitWheels ==
    /\ rig \in WheelRigs
    /\ pc = "massed"
    /\ ret = Returned("calculate_masses", "None")
    /\ jbeam = <<>>
    /\ mesh_mapping = {}
    /\ parse = NoFile

NextWheels == ToJbeam

SpecWheels == InitWheels /\ [][NextWheels]_vars

-----------------------------------------------------------------------------

(* Quads: a rig with one quad whose options are a list object *)

\* The nodes of the quad, the second with a node named twice.
QuadNodes ==
    {<<"node1", "node2", "node3", "node4">>, <<"node4", "node2", "node1", "node1">>}

\* The option lists a quad is given.
QuadOptions == {<<>>, <<"c">>, <<"v">>, <<"v", "c">>}

\* A rig that holds the quad, and the list of its options as the one list
\* object there is.
QuadRig(q, options) ==
    [field \in (DOMAIN NewRig) \cup {"lists"} |->
        IF field = "lists" THEN <<options>>
        ELSE IF field = "quads" THEN <<[q EXCEPT !.options = 1]>>
        ELSE NewRig[field]]

QuadRigs ==
    {QuadRig([Quad(ns[1], ns[2], ns[3], ns[4], surface_type) EXCEPT
                 !.material = material, !.drag_coefficient = drag,
                 !.lift_coefficient = lift], options) :
        ns \in QuadNodes, surface_type \in {"collision", "visual", "both"},
        material \in {"default", "glass"}, drag \in {RInt(0), Rat(3, 2)},
        lift \in {RInt(0), RInt(2)}, options \in QuadOptions}

InitQuad ==
    /\ rig \in QuadRigs
    /\ pc = "quad"
    /\ ret = Returned("Quad", "None")
    /\ jbeam = <<>>
    /\ mesh_mapping = {}
    /\ parse = NoFile

NextQuad == QuadToTriangles \/ AppendOption

SpecQuad == InitQuad /\ [][NextQuad]_vars

----------------------------------------------------------------------------
(* Claims about mass distribution, checked under SpecMass *)

\* Some beam that is not VIRTUAL joins two nodes at different positions: the
\* density of the rig is not zero.
PositiveBeam(r) ==
    \E k \in DOMAIN r.beams :
        /\ r.beams[k].type # "VIRTUAL"
        /\ \E i, j \in DOMAIN r.nodes :
              /\ i = FindNode(r.nodes, r.beams[k].id1)
              /\ j = FindNode(r.nodes, r.beams[k].id2)
              /\ PosKey(r.nodes[i]) # PosKey(r.nodes[j])

AllAtLeastMinimass(r) ==
    \A i \in DOMAIN r.nodes : RLe(RInt(r.minimass), r.nodes[i].mass)

SumOfMasses(r) == RSum([i \in DOMAIN r.nodes |-> r.nodes[i].mass], Len(r.nodes))

\* The sum of the node masses differs from dry_weight + load_weight by at most
\* a tenth of dry_weight + load_weight.
Within10Percent(r) ==
    RLe(RAbs(RSub(SumOfMasses(r), RInt(r.dry_weight + r.load_weight))),
        Rat(r.dry_weight + r.load_weight, 10))

HasMessage(msgs, text) == \E k \in DOMAIN msgs : msgs[k].msg = text

NoValidBeams == Msg("Cannot calculate masses: no valid beams found", <<>>, 0)

----------------------------------------------------------------------------
(* Claims about mesh names and groups, checked under SpecMesh *)

VisualElements(r) == r.flexbodies \o r.props

\* How many of the elements 1..upto have the lower-cased mesh name of element i.
Occurrences(all, i, upto) ==
    Cardinality({j \in 1..upto : lower(all[j].mesh) = lower(all[i].mesh)})

\* The name the k-th of several occurrences is to receive: its own stem,
\* an underscore, k padded to three digits, its own extension.
Suffixed(mesh, k) ==
    splitext(mesh)[1] \o <<"_">> \o ZeroPad3(k) \o splitext(mesh)[2]

\* C4: _resolve_duplicate_mesh_names goes through the flexbodies and then the
\* props; a mesh whose lower-cased name occurs once keeps its name, and the
\* k-th of n > 1 occurrences of a lower-cased name becomes its own stem + "_"
\* + k padded to at least three digits + its own extension.
C4_SuffixByOccurrence ==
    [][ResolveDuplicateMeshNames =>
        LET before == VisualElements(rig)
            after == VisualElements(rig')
        IN  /\ Len(rig'.flexbodies) = Len(rig.flexbodies)
            /\ Len(rig'.props) = Len(rig.props)
            /\ \A i \in DOMAIN before :
                  after[i].mesh =
                      IF Occurrences(before, i, Len(before)) = 1
                      THEN before[i].mesh
                      ELSE Suffixed(before[i].mesh, Occurrences(before, i, i))]_vars

\* Wheel.MESH, wheel.mesh and the prop's wheel.mesh have been numbered 1, 2, 3,
\* each keeping its own letter case.
C4_Witness ==
    /\ pc = "resolved"
    /\ Len(rig.flexbodies) = 2 /\ Len(rig.props) = 1
    /\ rig.flexbodies[1].mesh = Suffixed(Wheel_MESH, 1)
    /\ rig.flexbodies[2].mesh = Suffixed(wheel_mesh, 2)
    /\ rig.props[1].mesh = Suffixed(wheel_mesh, 3)

\* C5 as stated: after _resolve_duplicate_mesh_names the mesh names of all
\* flexbodies and props together are pairwise distinct.
C5_AsStated ==
    pc = "resolved" =>
        \A i, j \in DOMAIN VisualElements(rig) :
            i # j => VisualElements(rig)[i].mesh # VisualElements(rig)[j].mesh

\* C6: once _assign_flexbody_groups has run, the nodes that carry the group
\* name of a flexbody with a non-empty forset are exactly the nodes its triad
\* names and its forset names resolve to, provided no other flexbody or prop
\* derives the same group name.
C6_ForsetGroupExact ==
    pc = "assigned" =>
        \A k \in DOMAIN rig.flexbodies :
            LET flexbody == rig.flexbodies[k]
                group_name == get_group_name(flexbody)
                names == {flexbody.refnode, flexbody.xnode, flexbody.ynode}
                             \cup SeqToSet(flexbody.forset_nodes)
            IN  (/\ flexbody.forset_nodes # <<>>
                 /\ \A j \in DOMAIN rig.flexbodies :
                        j # k => get_group_name(rig.flexbodies[j]) # group_name
                 /\ \A j \in DOMAIN rig.props :
                        get_group_name(rig.props[j]) # group_name)
                => {i \in DOMAIN rig.nodes : InSeq(group_name, rig.nodes[i].group)}
                   = {node_map(rig.nodes, n) : n \in names} \ {0}

\* A flexbody with triad node1, node2, node3 and forset node5 has given its
\* group to exactly those four nodes; node4, which lies next to the triad,
\* does not carry it.
C6_Witness ==
    /\ pc = "assigned"
    /\ \E k \in DOMAIN rig.flexbodies :
          LET flexbody == rig.flexbodies[k]
              group_name == get_group_name(flexbody)
          IN  /\ flexbody.forset_nodes = <<"node5">>
              /\ \A j \in DOMAIN rig.flexbodies :
                     j # k => get_group_name(rig.flexbodies[j]) # group_name
              /\ Cardinality({i \in DOMAIN rig.nodes :
                                 InSeq(group_name, rig.nodes[i].group)}) = 4
              /\ ~InSeq(group_name, rig.nodes[4].group)

----------------------------------------------------------------------------
(* Claims about validation, checked under SpecValidate *)

\* How many recorded warnings say that a beam references the name id.
BeamWarnings(r, id) ==
    Cardinality({k \in DOMAIN r.parse_warnings :
        r.parse_warnings[k] = Msg("Beam references non-existent node", <<id>>, 0)})

\* How many beam endpoints carry the name id.
Endpoints(r, id) ==
    Cardinality({k \in DOMAIN r.beams : r.beams[k].id1 = id})
    + Cardinality({k \in DOMAIN r.beams : r.beams[k].id2 = id})

EndpointNames(r) ==
    {r.beams[k].id1 : k \in DOMAIN r.beams} \cup {r.beams[k].id2 : k \in DOMAIN r.beams}

\* C7: one call of validate appends exactly one warning for every beam
\* endpoint whose name is no node's name (two for a beam both of whose
\* endpoints dangle), none for an endpoint that resolves, and returns
\* without raising.
C7_OneWarningPerDanglingEndpoint ==
    [][Validate =>
        /\ ~ret'.raised
        /\ \A id \in EndpointNames(rig) :
              BeamWarnings(rig', id) - BeamWarnings(rig, id) =
                  IF id \in NodeNameSet(rig) THEN 0 ELSE Endpoints(rig, id)]_vars

\* validate has returned on a rig with nodes, with a beam dangling at both
\* ends and a beam dangling at one: node999 was reported twice, node998 once.
C7_Witness ==
    /\ pc = "validated"
    /\ ~ret.raised
    /\ rig.nodes # <<>>
    /\ Len(rig.beams) = 2
    /\ Endpoints(rig, "node999") = 2 /\ BeamWarnings(rig, "node999") = 2
    /\ Endpoints(rig, "node998") = 1 /\ BeamWarnings(rig, "node998") = 1
    /\ BeamWarnings(rig, "node1") = 0

\* C9: validate returns False exactly when the rig has no nodes or no beams;
\* the conditions it warns about leave the result alone.
C9_FalseIffNoNodesOrNoBeams ==
    ret.op = "validate" =>
        /\ ret.value \in {"True", "False"}
        /\ ret.value = "False" <=> (Len(rig.nodes) = 0 \/ Len(rig.beams) = 0)

\* validate has returned True on a rig it warned about: a dangling beam
\* endpoint, nodes at one position, weights that are not positive, an engine
\* without torque curve, and a flexbody and a prop with a bad mesh format,
\* scale and animation mode.
C9_Witness ==
    /\ ret = Returned("validate", "True")
    /\ HasMessage(rig.parse_warnings, "Beam references non-existent node")
    /\ HasMessage(rig.parse_warnings, "Nodes have identical positions")
    /\ HasMessage(rig.parse_warnings, "Dry weight should be positive")
    /\ HasMessage(rig.parse_warnings, "Load weight should be positive")
    /\ HasMessage(rig.parse_warnings, "Engine defined but no torque curve found")
    /\ HasMessage(rig.parse_warnings, "Flexbody has unusual mesh format")
    /\ HasMessage(rig.parse_warnings, "invalid scale value")
    /\ HasMessage(rig.parse_warnings, "very large scale value")
    /\ HasMessage(rig.parse_warnings, "Prop has invalid animation mode")

\* C10: validate leaves the model as it found it: the collections and the
\* scalars of the rig are the same after the call; only the recorded
\* warnings and errors grow.
C10_ModelUnchanged ==
    [][Validate =>
        /\ [rig' EXCEPT !.parse_warnings = rig.parse_warnings,
                        !.parse_errors = rig.parse_errors] = rig
        /\ SubSeq(rig'.parse_warnings, 1, Len(rig.parse_warnings)) = rig.parse_warnings
        /\ SubSeq(rig'.parse_errors, 1, Len(rig.parse_errors)) = rig.parse_errors]_vars

\* validate has returned on a rig with nodes, beams, surfaces, a flexbody and
\* a prop, having recorded warnings about the weights.
C10_Witness ==
    /\ ret.op = "validate"
    /\ rig.nodes # <<>> /\ rig.beams # <<>>
    /\ rig.triangles # <<>> /\ rig.quads # <<>> /\ rig.legacy_triangles # <<>>
    /\ rig.dry_weight <= 0
    /\ HasMessage(rig.parse_warnings, "Dry weight should be positive")

----------------------------------------------------------------------------
(* Claims about parsing, checked under SpecParse *)

NoEntities(r) ==
    /\ r.nodes = <<>> /\ r.beams = <<>>
    /\ r.flexbodies = <<>> /\ r.props = <<>>
    /\ r.triangles = <<>> /\ r.quads = <<>> /\ r.legacy_triangles = <<>>

\* The file has two lines and the second one is an end line.
TitleAndEnd(lines) ==
    /\ Len(lines) = 2
    /\ PrepareLine(lines[2]) = [is_none |-> FALSE, line_cmps |-> <<<<"end">>>>]

\* C8: from_file on a file without lines raises RigParseError and leaves the
\* rig without entities; from_file on a file of a title line and an end line
\* returns normally with no nodes and no beams, and validate on that rig
\* returns False.
C8_EmptyFileAndTitleOnly ==
    /\ (parse.exists /\ parse.lines = <<>> /\ pc # "start")
       => /\ pc = "raised"
          /\ ret = Raised("from_file", "RigParseError")
          /\ NoEntities(rig)
    /\ (parse.exists /\ TitleAndEnd(parse.lines))
       => /\ pc # "raised" /\ ~ret.raised
          /\ pc = "parsed" =>
                /\ ret = Returned("from_file", "None")
                /\ rig.nodes = <<>> /\ rig.beams = <<>>
          /\ pc = "revalidated" => ret = Returned("validate", "False")

\* from_file has returned on a file of a title line and an end line, and
\* validate has then returned False on the rig.
C8_Witness ==
    /\ parse.exists /\ TitleAndEnd(parse.lines)
    /\ parse.done /\ parse.line_number = 2
    /\ pc = "revalidated"
    /\ ret = Returned("validate", "False")
    /\ rig.nodes = <<>> /\ rig.beams = <<>>

\* Handling the line raises: a detacher_group whose group is no integer, a
\* node line with a coordinate that is no number, a line of weights with a
\* weight that is no number.
LineRaises(p, line) ==
    LET prepared == PrepareLine(line)
        c == prepared.line_cmps
    IN  /\ p.lines_parsed > 0
        /\ ~prepared.is_none /\ Len(c) > 0
        /\ \/ c[1] = <<"detacher_group">> /\ Len(c) >= 2 /\ ~IsInt(c[2])
           \/ /\ ~IsNameIn(c[1], truck_inline_sections \cup truck_sections)
              /\ \/ /\ p.current_section \in {"nodes", "nodes2"} /\ Len(c) >= 4
                    /\ \E k \in 2..4 : ~IsNumber(c[k])
                 \/ /\ p.current_section = "globals" /\ Len(c) >= 2
                    /\ \E k \in 1..2 : ~IsNumber(c[k])

\* C11: from_file raises only for a file that is missing or has no lines;
\* a line after the title whose handling raises leaves the loop running,
\* and appends exactly one entry to parse_errors, which carries the number
\* of that line; a line whose handling does not raise appends none.
C11_LineErrorsAreRecorded ==
    /\ [](ret.raised => (~parse.exists \/ parse.lines = <<>>))
    /\ [][FromFileLine =>
            LET n == parse.line_number + 1
                before == rig.parse_errors
                after == rig'.parse_errors
            IN  /\ pc' = "parsing" /\ ~ret'.raised
                /\ parse'.line_number = n
                /\ IF LineRaises(parse, parse.trucklines[n])
                   THEN /\ Len(after) = Len(before) + 1
                        /\ SubSeq(after, 1, Len(before)) = before
                        /\ after[Len(after)].line = n
                   ELSE after = before]_vars

\* Two lines of one file have raised, one in a directive and one in the
\* content of a section: the loop has gone on from the first to the second,
\* and to the end of the file.
C11_Witness ==
    /\ pc = "parsing"
    /\ parse.line_number = Len(parse.trucklines)
    /\ Len(rig.parse_errors) = 2
    /\ {rig.parse_errors[k].msg : k \in 1..2}
         = {"Error parsing line", "Error parsing {section_name}"}
    /\ rig.parse_errors[1].line < rig.parse_errors[2].line

\* The first token of the line is end.
IsEndLine(line) ==
    LET prepared == PrepareLine(line)
    IN  ~prepared.is_none /\ Len(prepared.line_cmps) > 0
        /\ prepared.line_cmps[1] = <<"end">>

\* The number of the first line after the title whose first token is end;
\* 0 if the file has none.
FirstEndLine(lines) ==
    IF \E k \in 2..Len(lines) : IsEndLine(lines[k])
    THEN CHOOSE k \in 2..Len(lines) :
            IsEndLine(lines[k]) /\ \A j \in 2..(k - 1) : ~IsEndLine(lines[j])
    ELSE 0

\* The locals of the loop: the state of the parse without the file.
Locals(p) == [f \in DOMAIN p \ {"exists", "lines", "trucklines"} |-> p[f]]

\* C12: when from_file has returned on a file with a line after the title
\* whose first token is end, the rig (collections, weights, warnings and
\* errors) and the locals of the loop (section, sticky defaults) are those
\* of from_file on the file cut after its first such line; and once that
\* line is processed no further line is.
C12_NothingAfterEnd ==
    /\ (pc = "parsed" /\ FirstEndLine(parse.lines) > 0)
          => LET cut == from_file(SubSeq(parse.lines, 1, FirstEndLine(parse.lines)))
             IN  /\ rig \in cut.rigs
                 /\ Locals(parse) = Locals(cut.parse)
    /\ (pc = "parsing" /\ parse.done)
          => /\ parse.line_number = FirstEndLine(parse.lines)
             /\ ~ENABLED FromFileLine

\* from_file has returned on a file that goes on after its end line with
\* the header of beams and a beam line; the rig has the nodes of the lines
\* before end and no beam.
C12_Witness ==
    /\ pc = "parsed"
    /\ FirstEndLine(parse.lines) > 0
    /\ parse.line_number = FirstEndLine(parse.lines)
    /\ \E k \in (parse.line_number + 1)..Len(parse.lines) :
          PrepareLine(parse.lines[k]).line_cmps = << <<"1">>, <<"2">> >>
    /\ Len(rig.nodes) = 2 /\ rig.beams = <<>>

\* The first token of the line is one of the words.
FirstTokenIn(line, words) ==
    LET prepared == PrepareLine(line)
    IN  ~prepared.is_none /\ Len(prepared.line_cmps) > 0
        /\ IsNameIn(prepared.line_cmps[1], words)

\* C13: processing a line after the title whose first token is one of
\* set_beam_defaults, set_beam_defaults_scale, set_node_defaults,
\* detacher_group, author, rollon, forset and end leaves current_section
\* as it was. The line rollon does not: it is taken for a section header.
C13_AsStated ==
    [][(FromFileLine /\ parse.lines_parsed > 0
          /\ FirstTokenIn(parse.trucklines[parse.line_number + 1],
                          {"set_beam_defaults", "set_beam_defaults_scale",
                           "set_node_defaults", "detacher_group", "author",
                           "rollon", "forset", "end"}))
         => parse'.current_section = parse.current_section]_vars

\* C14: when from_file has returned, no two entries of rig.nodes have the
\* same name. A file that gives one identifier to two node lines breaks it.
C14_AsStated ==
    pc = "parsed" =>
        \A i, j \in DOMAIN rig.nodes : rig.nodes[i].name = rig.nodes[j].name => i = j

\* The line is a content line: it comes after the title, it has components,
\* and its first is neither a directive nor a section header.
IsContentLine(p, line) ==
    /\ p.lines_parsed > 0
    /\ ~PrepareLine(line).is_none /\ Len(PrepareLine(line).line_cmps) > 0
    /\ ~FirstTokenIn(line, truck_inline_sections \cup truck_sections)

\* after is before with one more entry at its end.
OneAppended(before, after) ==
    Len(after) = Len(before) + 1 /\ SubSeq(after, 1, Len(before)) = before

\* What a content line with the components c does in the section of p,
\* when wellformed(c) says which node lines append a node.
ContentLineEffect(p, c, wellformed(_)) ==
    /\ IF p.current_section \in {"nodes", "nodes2"} /\ Len(c) >= 4 /\ wellformed(c)
       THEN /\ OneAppended(rig.nodes, rig'.nodes)
            /\ rig'.nodes[Len(rig'.nodes)].name = ParseNodeName(c[1])
       ELSE rig'.nodes = rig.nodes
    /\ IF p.current_section = "beams" /\ Len(c) >= 2
       THEN /\ OneAppended(rig.beams, rig'.beams)
            /\ rig'.beams[Len(rig'.beams)].id1 = ParseNodeName(c[1])
            /\ rig'.beams[Len(rig'.beams)].id2 = ParseNodeName(c[2])
       ELSE rig'.beams = rig.beams
    /\ IF p.current_section = "globals" /\ Len(c) >= 2
          /\ IsNumber(c[1]) /\ IsNumber(c[2])
       THEN rig'.dry_weight = float(c[1]) /\ rig'.load_weight = float(c[2])
       ELSE p.current_section # "globals"
               => rig'.dry_weight = rig.dry_weight /\ rig'.load_weight = rig.load_weight

HasNumbers(c) == \A k \in 2..4 : IsNumber(c[k])
HasTokens(c) == TRUE

\* C20 as stated: every content line of nodes or nodes2 with at least 4
\* tokens appends exactly one node. A node line with a coordinate that is
\* no number appends none.
C20_AsStated ==
    [][(FromFileLine /\ IsContentLine(parse, parse.trucklines[parse.line_number + 1]))
         => ContentLineEffect(parse,
                PrepareLine(parse.trucklines[parse.line_number + 1]).line_cmps,
                HasTokens)]_vars

\* C20: a content line of nodes or nodes2 with at least 4 tokens whose
\* coordinates are numbers appends exactly one node, named after its first
\* token, and no other content line appends a node; a content line of
\* beams with at least 2 tokens appends exactly one beam between the nodes
\* it names, and no other content line appends a beam; a content line D, W
\* of globals with two numbers sets dry_weight to D and load_weight to W,
\* so that the last such line wins; outside globals the weights stay.
C20_OneEntityPerLine ==
    [][(FromFileLine /\ IsContentLine(parse, parse.trucklines[parse.line_number + 1]))
         => ContentLineEffect(parse,
                PrepareLine(parse.trucklines[parse.line_number + 1]).line_cmps,
                HasNumbers)]_vars

\* from_file has returned on the file of a title, two node lines, one beam
\* line and the weights 1000, 500: two nodes, one beam, the two weights.
C20_Witness ==
    /\ pc = "parsed"
    /\ Len(parse.lines) = 8
    /\ Len(rig.nodes) = 2 /\ Len(rig.beams) = 1
    /\ rig.nodes[1].name = "node1" /\ rig.nodes[2].name = "node2"
    /\ rig.beams[1].id1 = "node1" /\ rig.beams[1].id2 = "node2"
    /\ rig.dry_weight = 1000 /\ rig.load_weight = 500
    /\ rig.parse_errors = <<>>

----------------------------------------------------------------------------
(* Claims about mass distribution called twice, checked under SpecRemass *)

Masses(r) == [i \in DOMAIN r.nodes |-> r.nodes[i].mass]

\* C19: a second call of calculate_masses right after the first leaves
\* every node with the mass the first call gave it, whatever the masses
\* were before the first call.
C19_SecondCallKeepsMasses ==
    [][CalculateMassesAgain => Masses(rig') = Masses(rig)]_vars

\* calculate_masses has run twice on a rig whose dry weight was distributed
\* over a beam between a node that bears no load and one that bears some:
\* both have more than the minimum mass, and the second more than the first.
C19_Witness ==
    /\ pc = "remassed"
    /\ \E i, j \in DOMAIN rig.nodes :
          /\ ~rig.nodes[i].load_bearer /\ rig.nodes[j].load_bearer
          /\ RLt(RInt(rig.minimass), rig.nodes[i].mass)
          /\ RLt(rig.nodes[i].mass, rig.nodes[j].mass)

----------------------------------------------------------------------------
(* Claims about serialisation, checked under SpecJbeam *)

\* The rows of the section of that name in what was written, in the order
\* written; <<>> if there is no such section.
RowsOf(jb, name) ==
    LET named == SelectSeq(jb, LAMBDA s : s.name = name)
        rows == IF named = <<>> THEN <<>>
                ELSE SelectSeq(named[1].items, LAMBDA item : item.kind = "row")
    IN  [k \in DOMAIN rows |-> rows[k].value]

\* to_jbeam leaves every flexbody and prop at its place in its list; it
\* renames their meshes and groups.
SamePlaces(before, after) ==
    /\ Len(after) = Len(before)
    /\ \A k \in DOMAIN before :
          [after[k] EXCEPT !.mesh = <<>>, !.group_name = <<>>]
             = [before[k] EXCEPT !.mesh = <<>>, !.group_name = <<>>]

\* The rows of every collection but the beams are those of its records in
\* the order of the collection: of the flexbodies and props those whose
\* nodes exist, under the mesh names to_jbeam gave them, of the triangles
\* first the triangles, then the legacy triangles, then the two of every
\* quad.
RowsInInsertionOrder(r, jb) ==
    LET flexbodies == SelectSeq(r.flexbodies, LAMBDA p : HasItsNodes(r, p))
        props == SelectSeq(r.props, LAMBDA p : HasItsNodes(r, p))
        triangles == SelectSeq(AllTriangles(r), is_collision)
        visual == SelectSeq(AllTriangles(r), LAMBDA t : is_visual(t) /\ ~is_collision(t))
    IN  /\ [k \in DOMAIN RowsOf(jb, "nodes") |-> RowsOf(jb, "nodes")[k].id]
             = [k \in DOMAIN r.nodes |-> r.nodes[k].name]
        /\ RowsOf(jb, "camerasInternal")
             = [k \in DOMAIN r.internal_cameras |-> r.internal_cameras[k].id1]
        /\ [k \in DOMAIN RowsOf(jb, "flexbodies") |-> RowsOf(jb, "flexbodies")[k][1]]
             = [k \in DOMAIN flexbodies |-> MeshName(flexbodies[k].mesh)]
        /\ [k \in DOMAIN RowsOf(jb, "props") |-> RowsOf(jb, "props")[k][1]]
             = [k \in DOMAIN props |-> MeshName(props[k].mesh)]
        /\ RowsOf(jb, "rails") = [k \in DOMAIN r.rails |-> r.rails[k].name]
        /\ RowsOf(jb, "slidenodes")
             = [k \in DOMAIN r.slidenodes |-> <<r.slidenodes[k].node, r.slidenodes[k].rail>>]
        /\ RowsOf(jb, "differentials")
             = [k \in DOMAIN r.axles |-> <<r.axles[k].wid1, r.axles[k].wid2>>]
        /\ RowsOf(jb, "triangles")
             = [k \in DOMAIN triangles |->
                   <<triangles[k].node1, triangles[k].node2, triangles[k].node3>>]
        /\ RowsOf(jb, "visualTriangles")
             = [k \in DOMAIN visual |-> <<visual[k].node1, visual[k].node2, visual[k].node3>>]
        /\ RowsOf(jb, "pressureWheels")
             = [k \in DOMAIN r.wheels |-> <<r.wheels[k].nid1, r.wheels[k].nid2>>]
        /\ RowsOf(jb, "hydros")
             = [k \in DOMAIN r.hydros |-> <<r.hydros[k].id1, r.hydros[k].id2>>]

\* C15 as stated: to_jbeam writes the rows of every collection in the order
\* of the collection, and the rows of the beams in the order in which the
\* beams were appended. Two beams of which the second has the stiffer
\* spring are written in the other order.
C15_AsStated ==
    [][ToJbeam =>
          /\ RowsInInsertionOrder(rig', jbeam')
          /\ SamePlaces(rig.flexbodies, rig'.flexbodies)
          /\ SamePlaces(rig.props, rig'.props)
          /\ RowsOf(jbeam', "beams") = [k \in DOMAIN rig.beams |->
                                           <<rig.beams[k].id1, rig.beams[k].id2>>]]_vars

\* The place in bs of the beam a row of the beams section names; the k-th
\* beam of a rig of this model starts at the node k.
PlaceOf(bs, row) == CHOOSE k \in DOMAIN bs : <<bs[k].id1, bs[k].id2>> = row

\* C15: to_jbeam writes the rows of every collection but the beams in the
\* order of the collection; it writes one row for every beam, the beams
\* with the stiffer beamSpring first and the beams of one beamSpring in the
\* order in which they were appended.
C15_BeamsBySpringElseInsertion ==
    [][ToJbeam =>
          LET rows == RowsOf(jbeam', "beams")
              place == [k \in DOMAIN rows |-> PlaceOf(rig.beams, rows[k])]
          IN  /\ RowsInInsertionOrder(rig', jbeam')
              /\ SamePlaces(rig.flexbodies, rig'.flexbodies)
              /\ SamePlaces(rig.props, rig'.props)
              /\ Len(rows) = Len(rig.beams)
              /\ \A k \in DOMAIN rows :
                    \E j \in DOMAIN rig.beams : <<rig.beams[j].id1, rig.beams[j].id2>> = rows[k]
              /\ \A i, j \in DOMAIN rows :
                    i < j => \/ rig.beams[place[i]].beamSpring > rig.beams[place[j]].beamSpring
                             \/ /\ rig.beams[place[i]].beamSpring = rig.beams[place[j]].beamSpring
                                /\ place[i] < place[j]]_vars

\* to_jbeam has written a rig whose first beam is softer than its second:
\* the row of the second beam comes first; the nodes, the flexbodies of
\* which the second is passed over, and the triangles are in their order.
C15_Witness ==
    /\ pc = "written"
    /\ RowsOf(jbeam, "beams") = <<<<"node2", "node3">>, <<"node1", "node2">>>>
    /\ Len(RowsOf(jbeam, "nodes")) = 2
    /\ RowsOf(jbeam, "nodes")[1].id = "node1" /\ RowsOf(jbeam, "nodes")[2].id = "node2"
    /\ Len(rig.flexbodies) = 3 /\ Len(RowsOf(jbeam, "flexbodies")) = 2
    /\ Len(RowsOf(jbeam, "triangles")) = 5

\* The order of the sections of the target format.
SectionOrder ==
    <<"information", "refNodes", "enginetorque", "engine", "camerasInternal",
      "flexbodies", "props", "nodes", "beams", "rails", "slidenodes",
      "differentials", "triangles", "visualTriangles", "pressureWheels", "hydros">>

\* The collection of the section is not empty, its optional record is there.
HasContent(r, name) ==
    CASE name = "information" -> TRUE
      [] name = "refNodes" -> r.refnodes # <<>>
      [] name = "enginetorque" -> r.torquecurve
      [] name = "engine" -> r.engine
      [] name = "camerasInternal" -> r.internal_cameras # <<>>
      [] name = "flexbodies" -> r.flexbodies # <<>>
      [] name = "props" -> r.props # <<>>
      [] name = "nodes" -> r.nodes # <<>>
      [] name = "beams" -> r.beams # <<>>
      [] name = "rails" -> r.rails # <<>>
      [] name = "slidenodes" -> r.slidenodes # <<>>
      [] name = "differentials" -> r.axles # <<>>
      [] name = "triangles" -> \E k \in DOMAIN AllTriangles(r) : is_collision(AllTriangles(r)[k])
      [] name = "visualTriangles" ->
            \E k \in DOMAIN AllTriangles(r) :
                is_visual(AllTriangles(r)[k]) /\ ~is_collision(AllTriangles(r)[k])
      [] name = "pressureWheels" -> r.wheels # <<>>
      [] name = "hydros" -> r.hydros # <<>>

\* C16: what to_jbeam has written holds the sections information, refNodes,
\* enginetorque, engine, camerasInternal, flexbodies, props, nodes, beams,
\* rails, slidenodes, differentials, triangles, visualTriangles,
\* pressureWheels, hydros in this relative order, each at most once; a
\* section is there exactly when its collection is not empty or its
\* optional record is present (triangles when a triangle is a collision
\* triangle, visualTriangles when one is visual only).
C16_SectionOrder ==
    pc \in {"written", "done"} =>
        LET place(name) == CHOOSE p \in DOMAIN SectionOrder : SectionOrder[p] = name
        IN  /\ \A k \in DOMAIN jbeam : InSeq(jbeam[k].name, SectionOrder)
            /\ \A i, j \in DOMAIN jbeam :
                  i < j => place(jbeam[i].name) < place(jbeam[j].name)
            /\ \A p \in DOMAIN SectionOrder :
                  (\E k \in DOMAIN jbeam : jbeam[k].name = SectionOrder[p])
                     <=> HasContent(rig, SectionOrder[p])

\* to_jbeam has written all sixteen sections for one rig, and for another
\* the information, the rails, the slidenodes and the differentials alone.
C16_Witness ==
    /\ pc = "written"
    /\ \/ [k \in DOMAIN jbeam |-> jbeam[k].name] = SectionOrder
       \/ [k \in DOMAIN jbeam |-> jbeam[k].name]
             = <<"information", "rails", "slidenodes", "differentials">>

\* The items of the section of that name in what was written.
ItemsOf(jb, name) ==
    LET named == SelectSeq(jb, LAMBDA s : s.name = name)
    IN  IF named = <<>> THEN <<>> ELSE named[1].items

\* What a reader of the file takes from a marker: the inverse reading of
\* the text written, true and false as booleans, the name after the "|",
\* "" as no group.
Decode(key, w) ==
    CASE key \in {"selfCollision", "beamDampRebound"} -> w = "true"
      [] key \in {"beamType", "material"} -> w[2]
      [] key = "group" -> IF w.text = "" THEN <<>> ELSE w.list
      [] OTHER -> w

\* The value in force for a key at the n-th item: that of the last marker
\* of the key before it, or, before the first such marker, the value the
\* writer starts from.
InForce(items, n, key, initial) ==
    LET before == {m \in 1..(n - 1) : items[m].kind = "marker" /\ items[m].key = key}
    IN  IF before = {} THEN initial
        ELSE Decode(key, items[CHOOSE m \in before : \A o \in before : o <= m].value)

\* The place among the items of the k-th row.
RowPlace(items, k) ==
    CHOOSE n \in DOMAIN items :
        /\ items[n].kind = "row"
        /\ Cardinality({m \in 1..n : items[m].kind = "row"}) = k

\* Every record has its row, and at the row the value in force of every
\* key is the value of the record's field.
Lossless(items, records, keys, last) ==
    /\ Cardinality({n \in DOMAIN items : items[n].kind = "row"}) = Len(records)
    /\ \A k \in DOMAIN records : \A j \in DOMAIN keys :
          InForce(items, RowPlace(items, k), keys[j][1], last[keys[j][2]])
             = records[k][keys[j][2]]

\* Every marker is of one of the keys and changes the value in force.
Minimal(items, keys, last) ==
    \A n \in DOMAIN items :
        items[n].kind = "marker" =>
            \E j \in DOMAIN keys :
                /\ keys[j][1] = items[n].key
                /\ Decode(items[n].key, items[n].value)
                      # InForce(items, n, items[n].key, last[keys[j][2]])

----------------------------------------------------------------------------
(* Claims about quads, checked under SpecQuad *)

\* The elements of the options of an object of the rig.
OptionsOf(r, x) == r.lists[x.options]

\* C18: to_triangles of a quad (n1,n2,n3,n4) returns two triangles, the
\* first of (n1,n2,n3) and the second of (n1,n3,n4), each with the surface
\* type, the material, the drag coefficient and the lift coefficient of the
\* quad and with a list of its own that holds the options of the quad; the
\* call leaves the quad and its options as they were, and an option
\* appended afterwards to the list of the quad or of one triangle leaves
\* the options of the other two as they were.
C18_QuadToTwoTriangles ==
    /\ [](pc = "split" =>
            LET q == rig.quads[1]
                ts == ret.value
            IN  /\ Len(ts) = 2
                /\ <<ts[1].node1, ts[1].node2, ts[1].node3>> = <<q.node1, q.node2, q.node3>>
                /\ <<ts[2].node1, ts[2].node2, ts[2].node3>> = <<q.node1, q.node3, q.node4>>
                /\ \A k \in 1..2 :
                      /\ ts[k].surface_type = q.surface_type
                      /\ ts[k].material = q.material
                      /\ ts[k].drag_coefficient = q.drag_coefficient
                      /\ ts[k].lift_coefficient = q.lift_coefficient
                      /\ OptionsOf(rig, ts[k]) = OptionsOf(rig, q)
                      /\ DOMAIN ts[k] = DOMAIN Triangle("", "", "", ""))
    /\ [][QuadToTriangles =>
            /\ rig'.quads = rig.quads
            /\ OptionsOf(rig', rig'.quads[1]) = OptionsOf(rig, rig.quads[1])]_vars
    /\ [][AppendOption =>
            LET objects == <<rig.quads[1], ret.value[1], ret.value[2]>>
            IN  Cardinality({k \in 1..3 :
                    OptionsOf(rig', objects[k]) # OptionsOf(rig, objects[k])}) = 1]_vars

\* to_triangles has split a glass quad with a drag coefficient and the
\* options v and c, and the caller has appended an option to the list of
\* the first triangle: it has three options, the quad and the second
\* triangle have two.
C18_Witness ==
    /\ pc = "appended"
    /\ rig.quads[1].material = "glass"
    /\ rig.quads[1].drag_coefficient = Rat(3, 2)
    /\ ret.value[1].material = "glass"
    /\ Len(OptionsOf(rig, ret.value[1])) = 3
    /\ OptionsOf(rig, rig.quads[1]) = <<"v", "c">>
    /\ OptionsOf(rig, ret.value[2]) = <<"v", "c">>

----------------------------------------------------------------------------
(* Claims about sticky defaults, checked under SpecDefaults *)

\* The components of the k-th line of the file.
CmpsOf(lines, k) == PrepareLine(lines[k]).line_cmps

\* The k-th line is a directive of that name that carries its values: it has
\* the components the directive needs, and they are numbers.
Carries(lines, k, name) ==
    LET c == CmpsOf(lines, k)
    IN  /\ ~PrepareLine(lines[k]).is_none
        /\ IsNameIn(c[1], {name})
        /\ Len(c) >= (IF name = "detacher_group" THEN 2 ELSE 5)
        /\ \A j \in 2..(CASE name = "detacher_group" -> 2
                          [] name = "set_node_defaults" -> 3
                          [] OTHER -> 5) : IsNumber(c[j])

\* The numbers of the last directive of that name before the n-th line that
\* carries its values, the title apart; initial if there is none.
InForceAt(lines, n, name, initial) ==
    LET before == {k \in 2..(n - 1) : Carries(lines, k, name)}
        last == CHOOSE k \in before : \A o \in before : o <= k
    IN  IF before = {} THEN initial
        ELSE [j \in DOMAIN initial |-> NumberOf[CmpsOf(lines, last)[j + 1][1]]]

\* The break group of the beams of a detach group.
BreakGroupOf(group) ==
    CASE group = 0 -> "" [] group = 1 -> "detacher_group1"
      [] group = 2 -> "detacher_group2" [] group = 3 -> "detacher_group3"

AtForset ==
    /\ pc = "parsing" /\ ~parse.done /\ parse.line_number < Len(parse.trucklines)
    /\ ~PrepareLine(parse.trucklines[parse.line_number + 1]).is_none
    /\ IsNameIn(CmpsOf(parse.trucklines, parse.line_number + 1)[1], {"forset"})
    /\ CanParseForset(CmpsOf(parse.trucklines, parse.line_number + 1))

\* The places a directive names that are places of a list of n nodes, in
\* the order of the directive: each range up to its end or to the end of
\* the list.
RECURSIVE PlacesNamed(_, _)
PlacesNamed(ranges, n) ==
    IF ranges = <<>> THEN <<>>
    ELSE LET lo == ranges[1][1]
             hi == IF ranges[1][2] < n - 1 THEN ranges[1][2] ELSE n - 1
         IN  [i \in 1..(IF hi >= lo THEN hi - lo + 1 ELSE 0) |-> lo + i - 1]
                 \o PlacesNamed(Tail(ranges), n)

\* The ranges of a directive that run past a list of n nodes.
RunPast(ranges, n) == {k \in DOMAIN ranges : ranges[k][1] <= ranges[k][2] /\ ranges[k][2] >= n}

FirstPlace(x, s) == CHOOSE i \in DOMAIN s : s[i] = x /\ \A j \in 1..(i - 1) : s[j] # x

\* C22: a forset directive read when the rig has a flexbody appends to the
\* explicit node list of the last flexbody the names of the nodes at the
\* places it names, counted from 0 in the node list as parsed so far, none
\* twice and none that was there; every range that runs past the node list
\* records one warning and loses its rest, the other ranges are expanded;
\* read when the rig has no flexbody the directive changes nothing.
C22_Forset ==
    [][(AtForset /\ FromFileLine) =>
         LET ranges == ParseForset(CmpsOf(parse.trucklines, parse.line_number + 1))
             places == PlacesNamed(ranges, Len(rig.nodes))
             names == [i \in DOMAIN places |-> rig.nodes[places[i] + 1].name]
             n == Len(rig.flexbodies)
         IN  IF n = 0 THEN rig' = rig
             ELSE LET before == rig.flexbodies[n].forset_nodes
                      after == rig'.flexbodies[n].forset_nodes
                      added == SubSeq(after, Len(before) + 1, Len(after))
                  IN  /\ Len(after) >= Len(before)
                      /\ SubSeq(after, 1, Len(before)) = before
                      /\ {added[i] : i \in DOMAIN added}
                            = {names[i] : i \in DOMAIN names}
                                 \ {before[i] : i \in DOMAIN before}
                      /\ \A i, j \in DOMAIN added :
                            i < j => FirstPlace(added[i], names) < FirstPlace(added[j], names)
                      /\ Len(rig'.parse_warnings)
                            = Len(rig.parse_warnings) + Cardinality(RunPast(ranges, Len(rig.nodes)))
                      /\ rig' = [rig EXCEPT !.flexbodies[n].forset_nodes = after,
                                            !.parse_warnings = rig'.parse_warnings]]_vars

\* A file read to its end whose second flexbody holds the nodes at places 1
\* and 0 of the node list, in that order, after one warning; its first
\* flexbody holds none.
C22_Witness ==
    /\ pc = "parsed"
    /\ Len(rig.flexbodies) = 2
    /\ rig.flexbodies[1].forset_nodes = <<>>
    /\ rig.flexbodies[2].forset_nodes = <<"node1", "node2">>
    /\ Len(rig.parse_warnings) = 1

-----------------------------------------------------------------------------
(* Claims about the nodes a flexbody without forset hands its group to,      *)
(* checked under SpecGroups                                                 *)

PlaceNamed(ns, id) == CHOOSE i \in DOMAIN ns : ns[i].name = id

\* The places of the triad of a flexbody whose triad nodes exist.
Triad(ns, f) == {PlaceNamed(ns, f.refnode), PlaceNamed(ns, f.xnode), PlaceNamed(ns, f.ynode)}

\* The nodes at most twice as far from the centroid of the triad as the
\* farthest node of the triad, compared on the squares of the distances.
Candidates(ns, f) ==
    LET sum(c) == c[PlaceNamed(ns, f.refnode)] + c[PlaceNamed(ns, f.xnode)]
                     + c[PlaceNamed(ns, f.ynode)]
        cx == Rat(sum([i \in DOMAIN ns |-> ns[i].x]), 3)
        cy == Rat(sum([i \in DOMAIN ns |-> ns[i].y]), 3)
        cz == Rat(sum([i \in DOMAIN ns |-> ns[i].z]), 3)
        far == CHOOSE t \in Triad(ns, f) :
                  \A u \in Triad(ns, f) :
                      RLe(DistanceSq(ns[u], cx, cy, cz), DistanceSq(ns[t], cx, cy, cz))
    IN  {i \in DOMAIN ns :
            RLe(DistanceSq(ns[i], cx, cy, cz),
                RMul(RInt(4), DistanceSq(ns[far], cx, cy, cz)))}

Preferred(ns, f) == {i \in Candidates(ns, f) : Len(ns[i].group) < 2}

\* The candidates in fewer than 2 groups when they are 10 or more, else all
\* the candidates.
Chosen(ns, f) ==
    IF Cardinality(Preferred(ns, f)) >= 10 THEN Preferred(ns, f) ELSE Candidates(ns, f)

\* The nodes after the nodes of the set gainers have gained the name.
Gained(ns, gainers, name) ==
    [i \in DOMAIN ns |->
        IF i \in gainers /\ ~InSeq(name, ns[i].group)
        THEN [ns[i] EXCEPT !.group = Append(@, name)] ELSE ns[i]]

\* The nodes after the flexbodies 1..k have handed their names to the chosen
\* candidates, and with the triad as well.
RECURSIVE AfterChosen(_, _, _)
AfterChosen(ns, fs, k) ==
    IF k = 0 THEN ns
    ELSE LET before == AfterChosen(ns, fs, k - 1)
         IN  Gained(before, Chosen(before, fs[k]), get_group_name(fs[k]))

RECURSIVE AfterChosenAndTriad(_, _, _)
AfterChosenAndTriad(ns, fs, k) ==
    IF k = 0 THEN ns
    ELSE LET before == AfterChosenAndTriad(ns, fs, k - 1)
         IN  Gained(before, Chosen(before, fs[k]) \cup Triad(before, fs[k]),
                    get_group_name(fs[k]))

\* C23 as stated: the nodes that gain the group name of a flexbody without
\* forset whose triad exists are the candidates in fewer than 2 groups when
\* these are at least 10, and all the candidates otherwise.
C23_AsStated ==
    [][AssignFlexbodyGroups =>
          rig'.nodes = AfterChosen(rig.nodes, rig'.flexbodies, Len(rig'.flexbodies))]_vars

\* C23: the nodes that gain the group name of a flexbody without forset
\* whose triad exists are the three nodes of the triad together with the
\* candidates in fewer than 2 groups when these are at least 10, and with
\* all the candidates otherwise; the candidates are the nodes at most twice
\* as far from the centroid of the triad as its farthest node.
C23_TriadAndChosen ==
    [][AssignFlexbodyGroups =>
          rig'.nodes = AfterChosenAndTriad(rig.nodes, rig'.flexbodies,
                                           Len(rig'.flexbodies))]_vars

\* Ten candidates in fewer than 2 groups and one in two: the ten have gained
\* the name and the eleventh has not; the node far away has not.
C23_Witness ==
    /\ pc = "assigned"
    /\ Len(rig.flexbodies) = 1
    /\ Len(rig.nodes) = 12
    /\ \A i \in 1..10 : rig.nodes[i].group = <<get_group_name(rig.flexbodies[1])>>
    /\ Len(rig.nodes[11].group) = 2
    /\ rig.nodes[12].group = <<>>

-----------------------------------------------------------------------------
(* Claims about the masses calculate_masses hands out, checked under SpecMass *)

NoLoadWarning == "No load-bearing nodes found, using minimum mass"

\* C24: when calculate_masses runs on a rig with nodes none of which bears
\* load, it records the warning that no load-bearing nodes were found. It
\* does not: the branch that records it is entered only for a node that
\* bears load.
C24_AsStated ==
    [][(CalculateMasses /\ rig.nodes # <<>> /\ CountLoadNodes(rig.nodes) = 0)
          => \E k \in DOMAIN rig'.parse_warnings :
                 /\ k > Len(rig.parse_warnings)
                 /\ rig'.parse_warnings[k].msg = NoLoadWarning]_vars

\* The beams that have a length: not VIRTUAL, both ends the names of nodes.
HasLength(r, k) ==
    /\ r.beams[k].type # "VIRTUAL"
    /\ \E i, j \in DOMAIN r.nodes :
          r.nodes[i].name = r.beams[k].id1 /\ r.nodes[j].name = r.beams[k].id2

\* The squared distance between the ends of such a beam.
SquaredDistance(r, k) ==
    LET a == r.nodes[PlaceNamed(r.nodes, r.beams[k].id1)]
        b == r.nodes[PlaceNamed(r.nodes, r.beams[k].id2)]
    IN  (a.x - b.x) * (a.x - b.x) + (a.y - b.y) * (a.y - b.y) + (a.z - b.z) * (a.z - b.z)

RECURSIVE Density(_, _)
Density(r, k) ==
    IF k = 0 THEN 0
    ELSE Density(r, k - 1) + (IF HasLength(r, k) THEN SquaredDistance(r, k) ELSE 0)

\* What beam k adds to node i: for each of its ends that is the node, half
\* of its share of dry_weight.
Contribution(r, i, k) ==
    IF ~HasLength(r, k) THEN RInt(0)
    ELSE LET half == Rat(SquaredDistance(r, k) * r.dry_weight,
                         2 * Density(r, Len(r.beams)))
             ends == (IF r.beams[k].id1 = r.nodes[i].name THEN 1 ELSE 0)
                     + (IF r.beams[k].id2 = r.nodes[i].name THEN 1 ELSE 0)
         IN  RMul(RInt(ends), half)

Contributions(r, i) ==
    RSum([k \in DOMAIN r.beams |-> Contribution(r, i, k)], Len(r.beams))

\* The mass a node starts from: 0 if it bears no load, its override if it
\* has one, else load_weight / L.
StartMass(r, i) ==
    LET n == r.nodes[i]
    IN  IF ~n.load_bearer THEN RInt(0)
        ELSE IF n.override_mass # NoOverride THEN RInt(n.override_mass[1])
        ELSE Rat(r.load_weight, Cardinality({j \in DOMAIN r.nodes : r.nodes[j].load_bearer}))

\* The rig as calculate_masses has it before the loop of rig.py line 321.
BeforeClamp(r) ==
    LET r1 == InitializeMasses(r, CountLoadNodes(r.nodes), Len(r.nodes))
    IN  DistributeDryWeight(r1, LinearDensity(r1, Len(r1.beams)), Len(r1.beams))

\* C25: when the density is positive, the mass of every node before the
\* minimum-mass clamp is the mass it starts from plus, for every beam with
\* a length that it is an end of, squared distance * dry_weight / density / 2,
\* the density being the sum of the squared distances of the beams that are
\* not VIRTUAL; a VIRTUAL beam adds nothing; what the beams add over all the
\* nodes sums to dry_weight; the mass calculate_masses leaves is this mass
\* or minimass, whichever is larger.
C25_MassBeforeClamp ==
    [][(CalculateMasses /\ rig.nodes # <<>> /\ Density(rig, Len(rig.beams)) > 0) =>
          /\ \A i \in DOMAIN rig.nodes :
                LET mass == RAdd(StartMass(rig, i), Contributions(rig, i))
                IN  /\ BeforeClamp(rig).nodes[i].mass = mass
                    /\ rig'.nodes[i].mass
                          = (IF RLt(mass, RInt(rig.minimass)) THEN RInt(rig.minimass) ELSE mass)
          /\ RSum([i \in DOMAIN rig.nodes |-> Contributions(rig, i)], Len(rig.nodes))
                = RInt(rig.dry_weight)]_vars

\* calculate_masses has returned on two nodes joined by a beam with a length
\* and by a VIRTUAL beam: the node that bears no load has half of the dry
\* weight, the node that bears the load has the load and the other half.
C25_Witness ==
    /\ ret.op = "calculate_masses"
    /\ Len(rig.nodes) = 2 /\ Len(rig.beams) = 2
    /\ \E k \in DOMAIN rig.beams : rig.beams[k].type = "VIRTUAL"
    /\ rig.dry_weight = 1000 /\ rig.load_weight = 500
    /\ ~rig.nodes[1].load_bearer /\ rig.nodes[1].mass = RInt(500)
    /\ rig.nodes[2].load_bearer /\ rig.nodes[2].mass = RInt(1000)

-----------------------------------------------------------------------------
(* Claims about the triangle tables, checked under SpecJbeam *)

\* A surface to be written: its three nodes, and whether it is for
\* collision and for sight, by its surface type or by the options c and v.
Surface(node1, node2, node3, of) ==
    [nodes |-> <<node1, node2, node3>>,
     collision |-> of.surface_type \in {"collision", "both"}
                     \/ \E k \in DOMAIN of.options : of.options[k] = "c",
     visual |-> of.surface_type \in {"visual", "both"}
                  \/ \E k \in DOMAIN of.options : of.options[k] = "v"]

\* The surfaces of a rig: its triangles, its legacy triangles as collision
\* surfaces, and of every quad the triangles (1,2,3) and (1,3,4).
RECURSIVE QuadSurfaces(_, _)
QuadSurfaces(qs, k) ==
    IF k = 0 THEN <<>>
    ELSE QuadSurfaces(qs, k - 1)
         \o <<Surface(qs[k].node1, qs[k].node2, qs[k].node3, qs[k]),
              Surface(qs[k].node1, qs[k].node3, qs[k].node4, qs[k])>>

Surfaces(r) ==
    [k \in DOMAIN r.triangles |->
        Surface(r.triangles[k].node1, r.triangles[k].node2, r.triangles[k].node3,
                r.triangles[k])]
    \o [k \in DOMAIN r.legacy_triangles |->
           [nodes |-> <<r.legacy_triangles[k][1], r.legacy_triangles[k][2],
                        r.legacy_triangles[k][3]>>,
            collision |-> TRUE, visual |-> FALSE]]
    \o QuadSurfaces(r.quads, Len(r.quads))

NodesOf(surfaces) == [k \in DOMAIN surfaces |-> surfaces[k].nodes]

\* C26: the rows of the table triangles are the collision surfaces of the
\* rig, each once and in their order, the rows of the table visualTriangles
\* are the surfaces for sight that are not for collision, each once and in
\* their order; no surface is in both, and a surface for neither is in none.
C26_TrianglePartition ==
    [][ToJbeam =>
          LET all == Surfaces(rig)
              collision == SelectSeq(all, LAMBDA t : t.collision)
              visual == SelectSeq(all, LAMBDA t : t.visual /\ ~t.collision)
          IN  /\ RowsOf(jbeam', "triangles") = NodesOf(collision)
              /\ RowsOf(jbeam', "visualTriangles") = NodesOf(visual)
              /\ Len(RowsOf(jbeam', "triangles")) + Len(RowsOf(jbeam', "visualTriangles"))
                    = Cardinality({k \in DOMAIN all : all[k].collision \/ all[k].visual})]_vars

\* to_jbeam has written a rig with triangles of both kinds, a visual
\* triangle with the option c, a legacy triangle and two quads: five rows in
\* the collision table and three in the other.
C26_Witness ==
    /\ pc = "written"
    /\ Len(rig.triangles) = 3 /\ Len(rig.quads) = 2 /\ Len(rig.legacy_triangles) = 1
    /\ RowsOf(jbeam, "triangles")
          = << <<"node3", "node2", "node1">>, <<"node2", "node1", "node3">>,
               <<"node3", "node1", "node2">>, <<"node1", "node2", "node3">>,
               <<"node1", "node3", "node4">> >>
    /\ Len(RowsOf(jbeam, "visualTriangles")) = 3

-----------------------------------------------------------------------------
(* Claims about the transforms written, checked under SpecTransform *)

\* The flexbodies or props to_jbeam writes a row for: those whose three
\* nodes are nodes of the rig.
Emitted(r, elements) ==
    SelectSeq(elements, LAMBDA p :
        \A id \in {p.refnode, p.xnode, p.ynode} :
            \E i \in DOMAIN r.nodes : r.nodes[i].name = id)

\* The row carries that offset as its position and that rotation as its
\* rotation: pos and rot in the row of a flexbody, baseTranslation and
\* baseRotation in the row of a prop.
Carried(row, offset, rotation) ==
    /\ Len(row) > 0
    /\ LET transform == row[Len(row)]
       IN  /\ \E key \in DOMAIN transform \cap {"pos", "baseTranslation"} :
                  transform[key] = offset
           /\ \E key \in DOMAIN transform \cap {"rot", "baseRotation"} :
                  transform[key] = rotation

\* C27: with the transform properties written, the row of every flexbody
\* and of every prop that is written carries the offset (offsetX, offsetZ,
\* offsetY) and the rotation (rotX, rotZ, rotY) of its record. The row of a
\* prop carries the rotation and no offset.
C27_AsStated ==
    [][(ToJbeam /\ ~rig.no_transform_properties) =>
          LET flexbodies == Emitted(rig', rig'.flexbodies)
              props == Emitted(rig', rig'.props)
          IN  /\ Len(RowsOf(jbeam', "flexbodies")) = Len(flexbodies)
              /\ Len(RowsOf(jbeam', "props")) = Len(props)
              /\ \A k \in DOMAIN flexbodies :
                    Carried(RowsOf(jbeam', "flexbodies")[k],
                            <<flexbodies[k].offsetX, flexbodies[k].offsetZ,
                              flexbodies[k].offsetY>>,
                            <<flexbodies[k].rotX, flexbodies[k].rotZ, flexbodies[k].rotY>>)
              /\ \A k \in DOMAIN props :
                    Carried(RowsOf(jbeam', "props")[k],
                            <<props[k].offsetX, props[k].offsetZ, props[k].offsetY>>,
                            <<props[k].rotX, props[k].rotZ, props[k].rotY>>)]_vars

-----------------------------------------------------------------------------
(* Claims about the mapping handed to the DAE processor, checked under      *)
(* SpecSync                                                                 *)

\* The mesh name without its extension .mesh or .dae.
Stem(mesh) ==
    IF Len(mesh) >= 5 /\ SubSeq(mesh, Len(mesh) - 4, Len(mesh)) = <<".", "m", "e", "s", "h">>
    THEN SubSeq(mesh, 1, Len(mesh) - 5)
    ELSE IF Len(mesh) >= 4 /\ SubSeq(mesh, Len(mesh) - 3, Len(mesh)) = <<".", "d", "a", "e">>
    THEN SubSeq(mesh, 1, Len(mesh) - 4)
    ELSE mesh

\* C28: the mapping handed to the DAE processor in convert_single_file maps
\* the mesh name of every flexbody and prop, full and without extension, to
\* the group name to_jbeam goes on to write for that element, the one
\* derived after the duplicate mesh names are resolved. For elements that
\* share a mesh name it maps to the group name derived before.
C28_AsStated ==
    [][(ToJbeam /\ pc = "synced" /\ mesh_mapping # {}) =>
          /\ \A k \in DOMAIN rig.flexbodies :
                /\ <<rig.flexbodies[k].mesh, get_group_name(rig'.flexbodies[k])>>
                      \in mesh_mapping
                /\ <<Stem(rig.flexbodies[k].mesh), get_group_name(rig'.flexbodies[k])>>
                      \in mesh_mapping
          /\ \A k \in DOMAIN rig.props :
                /\ <<rig.props[k].mesh, get_group_name(rig'.props[k])>> \in mesh_mapping
                /\ <<Stem(rig.props[k].mesh), get_group_name(rig'.props[k])>>
                      \in mesh_mapping]_vars

-----------------------------------------------------------------------------
(* Claims about to_jbeam called twice, checked under SpecRepeat *)

MeshesOf(r) ==
    [k \in DOMAIN r.flexbodies |-> r.flexbodies[k].mesh]
    \o [k \in DOMAIN r.props |-> r.props[k].mesh]

GroupsOf(r) == [i \in DOMAIN r.nodes |-> r.nodes[i].group]

\* C29: a second call of to_jbeam writes the document the first call wrote
\* and leaves the order of the beams, the mesh name of every flexbody and
\* prop and the group list of every node as the first call left them. It
\* does not: nodes that two flexbodies have put into two groups are no
\* longer preferred by the search of the second call, and mesh names the
\* first call made equal are renamed by the second.
C29_AsStated ==
    [][ToJbeamAgain =>
          /\ jbeam' = jbeam
          /\ rig'.beams = rig.beams
          /\ MeshesOf(rig') = MeshesOf(rig)
          /\ GroupsOf(rig') = GroupsOf(rig)]_vars

-----------------------------------------------------------------------------
(* Claims about the table of the wheels, checked under SpecWheels *)

\* The weight a wheel asks for of each of its nodes: the mass over twice
\* the rays of a simple wheel, over four times the rays of an advanced one.
WeightOf(w) ==
    IF w.type = "wheels" THEN Rat(w.mass, w.num_rays * 2)
    ELSE Rat(w.mass, w.num_rays * 4)

\* C30: in the pressureWheels table to_jbeam has written, at the row of
\* every wheel the hubNodeWeight marker in force carries mass / (num_rays *
\* 2) of a simple wheel, and the nodeWeight and hubNodeWeight markers in
\* force both carry mass / (num_rays * 4) of an advanced wheel. They do
\* not: the markers are written when the mass differs from that of the
\* wheel before, so a wheel of the same mass and other rays or of the other
\* kind is left under the markers of the wheel before it.
C30_AsStated ==
    pc = "written" =>
        LET items == ItemsOf(jbeam, "pressureWheels")
        IN  \A k \in DOMAIN rig.wheels :
               /\ InForce(items, RowPlace(items, k), "hubNodeWeight", <<>>)
                     = WeightOf(rig.wheels[k])
               /\ rig.wheels[k].type = "wheels.advanced" =>
                     InForce(items, RowPlace(items, k), "nodeWeight", <<>>)
                        = WeightOf(rig.wheels[k])

====
